---- MODULE Spec2Model ----
(***************************************************************************)
(* DomaGuardian: the DToken payment ledger and the feature contracts that  *)
(* debit it (ContractAnalysis, Tokenomics, SocialAnalysis, Monitoring,     *)
(* Universal, DomainManagement).                                           *)
(*                                                                         *)
(* Every external call is one action.  A call that reverts leaves the      *)
(* contract state as it was; the variable `last` records the call that was *)
(* made and how it ended ("ok" or the name of the revert), so that a       *)
(* property can speak of calls that fail.                                  *)
(*                                                                         *)
(* Amounts of currency are counted in gwei (1 ether = 10^9 gwei), so that  *)
(* 0.0001 ether is 100000.                                                 *)
(***************************************************************************)
EXTENDS Integers, Sequences, FiniteSets, TLC

VARIABLES
    authorizedContracts,  \* DToken: address -> bool
    userPayments,         \* DToken: address -> credit (gwei)
    userFeatureUsage,     \* DToken: address -> number of debits
    contractBalance,      \* DToken: address(this).balance (gwei)
    userRequests,         \* request logs: log -> address -> list of requests
    userMonitoring,       \* Monitoring: address -> list of subscriptions
    tokenMonitors,        \* Monitoring: target -> list of subscriber addresses
    userMessages,         \* Universal: address -> list of sent messages
    receivedMessages,     \* Universal: address -> list of received messages
    allMessages,          \* Universal: list of all messages
    domains,              \* DomainManagement: name -> Domain
    domainRights,         \* DomainManagement: name -> list of grants
    userDomains,          \* DomainManagement: address -> list of names
    allDomains,           \* DomainManagement: list of names
    now,                  \* block.timestamp
    status,               \* DToken: ReentrancyGuard's _status
    sending,              \* DToken: the amount withdrawETH's sendValue is transferring
    flows,                \* frontend: tab -> where its request stands
    last                  \* the last call and its outcome

ledgerVars == <<authorizedContracts, userPayments, userFeatureUsage, contractBalance>>

monVars == <<userMonitoring, tokenMonitors>>

msgVars == <<userMessages, receivedMessages, allMessages>>

domVars == <<domains, domainRights, userDomains, allDomains>>

\* The state of the feature contracts.
featureVars == <<userRequests, monVars, msgVars, domVars>>

\* The ledger's reentrancy guard and the transfer it is held over.
guardVars == <<status, sending>>

vars == <<ledgerVars, featureVars, now, guardVars, flows, last>>

----------------------------------------------------------------------------
(* Addresses *)

\* The account that runs the deployment script: Ownable(msg.sender) makes it
\* the owner of DToken and of every feature contract.
deployer == "deployer"

\* Externally owned accounts that call the contracts.
Accounts == {deployer, "alice", "bob"}

\* The three request logs, which share one code shape.
Logs == {"ContractAnalysis", "Tokenomics", "SocialAnalysis"}

\* The six feature contracts the deployment script authorizes in DToken.
FeatureContracts == Logs \cup {"Monitoring", "Universal", "DomainManagement"}

\* address(0)
ZERO == "0x0"

\* The addresses DToken is asked about: the keys of authorizedContracts.  The
\* other address-keyed mappings are modelled on the accounts (and address(0)
\* where a call can name it), the only keys a call writes.
Addresses == Accounts \cup FeatureContracts

----------------------------------------------------------------------------
(* Program constants *)

\* DToken.FEATURE_COST = 0.0001 ether, in gwei.
FEATURE_COST == 100000

\* ContractAnalysis / Tokenomics / SocialAnalysis .ANALYSIS_COST = 0.0001 ether.
ANALYSIS_COST == 100000

\* Monitoring.MONITORING_COST = 0.0001 ether.
MONITORING_COST == 100000

\* Universal.MESSAGE_COST = 0.0001 ether.
MESSAGE_COST == 100000

\* block.chainid of the network the contracts are deployed on (Doma Testnet).
CHAIN_ID == 97476

\* The strings calls pass as targets, domain names and right names; the
\* string-keyed mappings are modelled on these keys and the empty string.
TargetNames == {"0xAbc"}
DomainNames == {"a.doma", "b.doma", "c.doma"}

\* The token addresses monitoring is asked for: the keys of tokenMonitors.
TokenNames == TargetNames \cup {"0xDef"}
RightNames == {"DNS_MANAGEMENT"}

----------------------------------------------------------------------------
(* Bounds of the model *)

\* The largest credit balance (in feature prices) an account is let to reach.
MaxCredits == 1

\* The largest number of debits in a run.
MaxUses == 2

\* Amounts attached to a call: nothing, half the price, the price, twice the
\* price.
Values == {0, FEATURE_COST \div 2, FEATURE_COST, 2 * FEATURE_COST}

\* Amounts asked of withdrawETH: everything (0), half a price, all that is
\* held, and more than is held.
WithdrawAmounts == {0, FEATURE_COST \div 2, contractBalance, contractBalance + 1}

----------------------------------------------------------------------------
(* The call record *)

\* `to` is the contract called, `op` its function, `sender` msg.sender, `args`
\* the arguments (msg.value among them) and `result` "ok" or the revert.
Call(to, op, sender, args, result) ==
    [to |-> to, op |-> op, sender |-> sender, args |-> args, result |-> result]

NoCall == Call("DToken", "constructor", deployer, <<>>, "ok")

----------------------------------------------------------------------------
(* Ownable *)

\* Ownable(msg.sender) in every constructor; the deployment script deploys
\* every contract from one account.
owner == deployer

onlyOwner(sender) == sender = owner

----------------------------------------------------------------------------
(* DToken *)

\* modifier nonReentrant (ReentrancyGuard): passes when the guard is not held
nonReentrant == status = "NOT_ENTERED"

\* Mutant: the modifier lets every caller through.
onlyAuthorized_Anyone(sender) == TRUE

onlyAuthorized(sender) == authorizedContracts[sender]

hasFeaturePayment(user) == userPayments[user] >= FEATURE_COST

\* Mutant: authorizeContract without onlyOwner.
authorizeContractResult_Anyone(sender) == "ok"

\* authorizeContract(contractAddress, authorized) external onlyOwner
authorizeContractResult(sender) ==
    IF ~onlyOwner(sender) THEN "OwnableUnauthorizedAccount" ELSE "ok"

authorizeContract(sender, contractAddress, authorized) ==
    LET r == authorizeContractResult(sender) IN
    /\ authorizedContracts' =
          IF r = "ok"
          THEN [authorizedContracts EXCEPT ![contractAddress] = authorized]
          ELSE authorizedContracts
    /\ UNCHANGED <<userPayments, userFeatureUsage, contractBalance, featureVars, now, guardVars>>
    /\ last' = Call("DToken", "authorizeContract", sender, <<contractAddress, authorized>>, r)

\* Mutant: the check is only that something was paid.
payForFeatureResult_NonZero(value) ==
    IF ~nonReentrant THEN "ReentrancyGuardReentrantCall"
    ELSE IF value = 0 THEN "InsufficientPayment" ELSE "ok"

\* payForFeature() external payable nonReentrant
payForFeatureResult(value) ==
    IF ~nonReentrant THEN "ReentrancyGuardReentrantCall"
    ELSE IF value # FEATURE_COST THEN "InsufficientPayment" ELSE "ok"

\* Mutant: the deposit is credited twice over.
payForFeature_CreditedTwice(sender, value) ==
    LET r == payForFeatureResult(value) IN
    /\ userPayments' =
          IF r = "ok"
          THEN [userPayments EXCEPT ![sender] = @ + 2 * value]
          ELSE userPayments
    /\ contractBalance' = IF r = "ok" THEN contractBalance + value ELSE contractBalance
    /\ UNCHANGED <<authorizedContracts, userFeatureUsage, featureVars, now, guardVars>>
    /\ last' = Call("DToken", "payForFeature", sender, <<value>>, r)

payForFeature(sender, value) ==
    LET r == payForFeatureResult(value) IN
    /\ userPayments' =
          IF r = "ok"
          THEN [userPayments EXCEPT ![sender] = @ + value]
          ELSE userPayments
    /\ contractBalance' = IF r = "ok" THEN contractBalance + value ELSE contractBalance
    /\ UNCHANGED <<authorizedContracts, userFeatureUsage, featureVars, now, guardVars>>
    /\ last' = Call("DToken", "payForFeature", sender, <<value>>, r)

\* Mutant: the balance is checked against zero instead of the price.
useFeatureResult_NonZero(sender, user) ==
    IF ~onlyAuthorized(sender) THEN "UnauthorizedContract"
    ELSE IF ~nonReentrant THEN "ReentrancyGuardReentrantCall"
    ELSE IF userPayments[user] = 0 THEN "InsufficientPayment"
    ELSE "ok"

\* Mutant: the debit takes two prices.
useFeaturePayments_Twice(user) == [userPayments EXCEPT ![user] = @ - 2 * FEATURE_COST]

\* useFeature(user) external onlyAuthorized nonReentrant: how the call ends
useFeatureResult(sender, user) ==
    IF ~onlyAuthorized(sender) THEN "UnauthorizedContract"
    ELSE IF ~nonReentrant THEN "ReentrancyGuardReentrantCall"
    ELSE IF userPayments[user] < FEATURE_COST THEN "InsufficientPayment"
    ELSE "ok"

\* Mutant: the debit leaves the balance as it was.
useFeaturePayments_Kept(user) == userPayments

\* Mutant: the price is taken from every account that holds it.
useFeaturePayments_AllUsers(user) ==
    [a \in DOMAIN userPayments |->
        IF userPayments[a] >= FEATURE_COST
        THEN userPayments[a] - FEATURE_COST
        ELSE userPayments[a]]

\* useFeature's body past its checks
useFeaturePayments(user) == [userPayments EXCEPT ![user] = @ - FEATURE_COST]

\* Mutant: the usage counter is left as it is.
useFeatureUsage_Skipped(user) == userFeatureUsage

useFeatureUsage(user) == [userFeatureUsage EXCEPT ![user] = @ + 1]

\* A direct call of useFeature by an account.
useFeature(sender, user) ==
    LET r == useFeatureResult(sender, user) IN
    /\ userPayments' = IF r = "ok" THEN useFeaturePayments(user) ELSE userPayments
    /\ userFeatureUsage' = IF r = "ok" THEN useFeatureUsage(user) ELSE userFeatureUsage
    /\ UNCHANGED <<authorizedContracts, contractBalance, featureVars, now, guardVars>>
    /\ last' = Call("DToken", "useFeature", sender, <<user>>, r)

\* Mutant: an amount of 0 is not read as "everything held".
withdrawAmount_AsGiven(amount) == amount

\* withdrawETH(amount) external onlyOwner nonReentrant
withdrawAmount(amount) == IF amount = 0 THEN contractBalance ELSE amount

\* Mutant: withdrawETH without nonReentrant.
withdrawETHResult_NoGuard(sender, amount) ==
    IF ~onlyOwner(sender) THEN "OwnableUnauthorizedAccount"
    ELSE IF withdrawAmount(amount) > contractBalance THEN "InvalidAmount"
    ELSE IF withdrawAmount(amount) = 0 THEN "InvalidAmount"
    ELSE "ok"

withdrawETHResult(sender, amount) ==
    IF ~onlyOwner(sender) THEN "OwnableUnauthorizedAccount"
    ELSE IF ~nonReentrant THEN "ReentrancyGuardReentrantCall"
    ELSE IF withdrawAmount(amount) > contractBalance THEN "InvalidAmount"
    ELSE IF withdrawAmount(amount) = 0 THEN "InvalidAmount"
    ELSE "ok"

withdrawETH(sender, amount) ==
    LET r == withdrawETHResult(sender, amount) IN
    /\ contractBalance' =
          IF r = "ok" THEN contractBalance - withdrawAmount(amount) ELSE contractBalance
    /\ UNCHANGED <<authorizedContracts, userPayments, userFeatureUsage, featureVars, now, guardVars>>
    /\ last' = Call("DToken", "withdrawETH", sender, <<amount>>, r)

\* withdrawETH when the owner is a contract, in two steps.  First the call up
\* to payable(owner()).sendValue(amount): nonReentrant takes the guard, the
\* amount leaves the ledger and control passes to the owner's code, which can
\* call anything before it returns.
withdrawETHSend(sender, amount) ==
    /\ withdrawETHResult(sender, amount) = "ok"
    /\ status' = "ENTERED"
    /\ sending' = withdrawAmount(amount)
    /\ contractBalance' = contractBalance - withdrawAmount(amount)
    /\ UNCHANGED <<authorizedContracts, userPayments, userFeatureUsage, featureVars, now>>
    /\ last' = Call("DToken", "withdrawETH", sender, <<amount>>, "sendValue")

\* Then the owner's code returns: PaymentWithdrawn is emitted and nonReentrant
\* releases the guard.
withdrawETHReturn ==
    /\ status = "ENTERED"
    /\ status' = "NOT_ENTERED"
    /\ sending' = 0
    /\ UNCHANGED <<ledgerVars, featureVars, now>>
    /\ last' = Call("DToken", "withdrawETH", owner, <<sending>>, "ok")

\* receive() external payable: a plain transfer of currency to the ledger
receive(sender, value) ==
    /\ userPayments' = [userPayments EXCEPT ![sender] = @ + value]
    /\ contractBalance' = contractBalance + value
    /\ UNCHANGED <<authorizedContracts, userFeatureUsage, featureVars, now, guardVars>>
    /\ last' = Call("DToken", "receive", sender, <<value>>, "ok")

\* fallback() external payable: a call with data that matches no function
fallback(sender, value) ==
    /\ userPayments' = [userPayments EXCEPT ![sender] = @ + value]
    /\ contractBalance' = contractBalance + value
    /\ UNCHANGED <<authorizedContracts, userFeatureUsage, featureVars, now, guardVars>>
    /\ last' = Call("DToken", "fallback", sender, <<value>>, "ok")

----------------------------------------------------------------------------
(* ContractAnalysis, Tokenomics, SocialAnalysis: the request logs *)

\* The names of the two entry points of each log.
RequestOp(l) ==
    CASE l = "ContractAnalysis" -> "requestContractAnalysis"
      [] l = "Tokenomics" -> "requestTokenomicsAnalysis"
      [] l = "SocialAnalysis" -> "requestSocialAnalysis"

CompleteOp(l) ==
    CASE l = "ContractAnalysis" -> "completeAnalysis"
      [] l = "Tokenomics" -> "completeTokenomicsAnalysis"
      [] l = "SocialAnalysis" -> "completeSocialAnalysis"

\* The revert of an empty target.
InvalidTarget(l) ==
    IF l = "ContractAnalysis" THEN "InvalidContractAddress" ELSE "InvalidTokenAddress"

\* modifier requirePayment: passes when dToken.hasFeaturePayment(msg.sender)
requirePayment(sender) == hasFeaturePayment(sender)

\* Mutant: the target's length is not looked at.
requestAnalysisResult_NoTargetCheck(l, sender, target) ==
    IF ~requirePayment(sender) THEN "InsufficientPayment"
    ELSE useFeatureResult(l, sender)

\* request...Analysis(target) external requirePayment nonReentrant: how the
\* call ends.  The nested dToken.useFeature(msg.sender) is made by the log, and
\* its revert reverts the whole call.
requestAnalysisResult(l, sender, target) ==
    IF ~requirePayment(sender) THEN "InsufficientPayment"
    ELSE IF Len(target) = 0 THEN InvalidTarget(l)
    ELSE useFeatureResult(l, sender)

\* Mutant: the record stores msg.value (the entry point is not payable: 0)
\* as its payment.
newRequest_MsgValue(sender, target) ==
    [user |-> sender, target |-> target, payment |-> 0,
     completed |-> FALSE, score |-> 0, analysis |-> "", timestamp |-> now]

\* The record a request appends (riskScore / healthScore / sentimentScore is
\* `score`, contractAddress / tokenAddress is `target`).
newRequest(sender, target) ==
    [user |-> sender, target |-> target, payment |-> ANALYSIS_COST,
     completed |-> FALSE, score |-> 0, analysis |-> "", timestamp |-> now]

requestAnalysis(l, sender, target) ==
    LET r == requestAnalysisResult(l, sender, target) IN
    /\ userPayments' = IF r = "ok" THEN useFeaturePayments(sender) ELSE userPayments
    /\ userFeatureUsage' = IF r = "ok" THEN useFeatureUsage(sender) ELSE userFeatureUsage
    /\ userRequests' =
          IF r = "ok"
          THEN [userRequests EXCEPT ![l][sender] = Append(@, newRequest(sender, target))]
          ELSE userRequests
    /\ UNCHANGED <<authorizedContracts, contractBalance, monVars, msgVars, domVars, now, guardVars>>
    /\ last' = Call(l, RequestOp(l), sender, <<target>>, r)

\* Mutant: the completed flag is not looked at.
completeAnalysisResult_NoCompletedCheck(l, sender, user, requestIndex) ==
    IF ~onlyOwner(sender) THEN "OwnableUnauthorizedAccount"
    ELSE IF ~(requestIndex < Len(userRequests[l][user])) THEN "Invalid request index"
    ELSE "ok"

\* Mutant: the entry point is open to every caller.
completeAnalysisResult_NoOwnerCheck(l, sender, user, requestIndex) ==
    IF ~(requestIndex < Len(userRequests[l][user])) THEN "Invalid request index"
    ELSE IF userRequests[l][user][requestIndex + 1].completed
         THEN "Analysis already completed"
    ELSE "ok"

\* Mutant: a record is completed only after every earlier record of its list.
completeAnalysisResult_InOrder(l, sender, user, requestIndex) ==
    IF ~onlyOwner(sender) THEN "OwnableUnauthorizedAccount"
    ELSE IF ~(requestIndex < Len(userRequests[l][user])) THEN "Invalid request index"
    ELSE IF userRequests[l][user][requestIndex + 1].completed
         THEN "Analysis already completed"
    ELSE IF \E i \in 1..requestIndex : ~userRequests[l][user][i].completed
         THEN "Earlier request pending"
    ELSE "ok"

\* complete...Analysis(user, requestIndex, score, analysis) external onlyOwner:
\* how the call ends.  Solidity counts from 0, a TLA+ sequence from 1.
completeAnalysisResult(l, sender, user, requestIndex) ==
    IF ~onlyOwner(sender) THEN "OwnableUnauthorizedAccount"
    ELSE IF ~(requestIndex < Len(userRequests[l][user])) THEN "Invalid request index"
    ELSE IF userRequests[l][user][requestIndex + 1].completed
         THEN "Analysis already completed"
    ELSE "ok"

\* Mutant: the completion clears the record's payment.
completedRequest_PaymentCleared(request, score, analysis) ==
    [request EXCEPT !.completed = TRUE, !.score = score, !.analysis = analysis,
                    !.payment = 0]

\* The three field writes of a completion.
completedRequest(request, score, analysis) ==
    [request EXCEPT !.completed = TRUE, !.score = score, !.analysis = analysis]

completeAnalysis(l, sender, user, requestIndex, score, analysis) ==
    LET r == completeAnalysisResult(l, sender, user, requestIndex) IN
    /\ userRequests' =
          IF r = "ok"
          THEN [userRequests EXCEPT ![l][user][requestIndex + 1] =
                    completedRequest(@, score, analysis)]
          ELSE userRequests
    /\ UNCHANGED <<ledgerVars, monVars, msgVars, domVars, now, guardVars>>
    /\ last' = Call(l, CompleteOp(l), sender, <<user, requestIndex, score, analysis>>, r)

----------------------------------------------------------------------------
(* Monitoring *)

requestMonitoringResult(sender, tokenAddress) ==
    IF ~requirePayment(sender) THEN "InsufficientPayment"
    ELSE IF Len(tokenAddress) = 0 THEN "InvalidTokenAddress"
    ELSE useFeatureResult("Monitoring", sender)

newMonitoring(sender, tokenAddress, alertThreshold) ==
    [user |-> sender, tokenAddress |-> tokenAddress, payment |-> MONITORING_COST,
     active |-> TRUE, alertThreshold |-> alertThreshold, timestamp |-> now,
     alertCount |-> 0]

\* Mutant: the debit is made in a try / catch and its failure is passed over.
requestMonitoring_DebitPassedOver(sender, tokenAddress, alertThreshold) ==
    LET d == useFeatureResult("Monitoring", sender)
        r == IF ~requirePayment(sender) THEN "InsufficientPayment"
             ELSE IF Len(tokenAddress) = 0 THEN "InvalidTokenAddress"
             ELSE "ok"
    IN
    /\ userPayments' =
          IF r = "ok" /\ d = "ok" THEN useFeaturePayments(sender) ELSE userPayments
    /\ userFeatureUsage' =
          IF r = "ok" /\ d = "ok" THEN useFeatureUsage(sender) ELSE userFeatureUsage
    /\ userMonitoring' =
          IF r = "ok"
          THEN [userMonitoring EXCEPT ![sender] =
                    Append(@, [user |-> sender, tokenAddress |-> tokenAddress,
                               payment |-> MONITORING_COST, active |-> TRUE,
                               alertThreshold |-> alertThreshold, timestamp |-> now,
                               alertCount |-> 0])]
          ELSE userMonitoring
    /\ tokenMonitors' =
          IF r = "ok"
          THEN [tokenMonitors EXCEPT ![tokenAddress] = Append(@, sender)]
          ELSE tokenMonitors
    /\ UNCHANGED <<authorizedContracts, contractBalance, userRequests, msgVars, domVars,
                   now, guardVars>>
    /\ last' = Call("Monitoring", "requestMonitoring", sender,
                    <<tokenAddress, alertThreshold>>, r)

\* requestMonitoring(tokenAddress, alertThreshold) external requirePayment nonReentrant
requestMonitoring(sender, tokenAddress, alertThreshold) ==
    LET r == requestMonitoringResult(sender, tokenAddress) IN
    /\ userPayments' = IF r = "ok" THEN useFeaturePayments(sender) ELSE userPayments
    /\ userFeatureUsage' = IF r = "ok" THEN useFeatureUsage(sender) ELSE userFeatureUsage
    /\ userMonitoring' =
          IF r = "ok"
          THEN [userMonitoring EXCEPT ![sender] =
                    Append(@, newMonitoring(sender, tokenAddress, alertThreshold))]
          ELSE userMonitoring
    /\ tokenMonitors' =
          IF r = "ok"
          THEN [tokenMonitors EXCEPT ![tokenAddress] = Append(@, sender)]
          ELSE tokenMonitors
    /\ UNCHANGED <<authorizedContracts, contractBalance, userRequests, msgVars, domVars, now, guardVars>>
    /\ last' = Call("Monitoring", "requestMonitoring", sender,
                    <<tokenAddress, alertThreshold>>, r)

\* Mutant: an alerted subscription is switched off.
alertRequests_OneShot(requests, tokenAddress) ==
    [j \in 1..Len(requests) |->
        IF requests[j].tokenAddress = tokenAddress /\ requests[j].active
        THEN [requests[j] EXCEPT !.alertCount = @ + 1, !.active = FALSE]
        ELSE requests[j]]

\* The inner loop of triggerAlert over one user's requests: every active
\* request for the token gets one more alert (and one AlertTriggered event).
\* keccak256 of two strings is equal exactly when the strings are.
alertRequests(requests, tokenAddress) ==
    [j \in 1..Len(requests) |->
        IF requests[j].tokenAddress = tokenAddress /\ requests[j].active
        THEN [requests[j] EXCEPT !.alertCount = @ + 1]
        ELSE requests[j]]

\* The outer loop of triggerAlert over tokenMonitors[tokenAddress] from entry
\* i on: the inner loop runs on the requests of each entry's user, once for
\* each entry of the list.
RECURSIVE alertMonitors(_, _, _, _)
alertMonitors(monitors, i, tokenAddress, monitoring) ==
    IF i > Len(monitors) THEN monitoring
    ELSE alertMonitors(monitors, i + 1, tokenAddress,
                       [monitoring EXCEPT ![monitors[i]] = alertRequests(@, tokenAddress)])

triggerAlertResult(sender) ==
    IF ~onlyOwner(sender) THEN "OwnableUnauthorizedAccount" ELSE "ok"

\* triggerAlert(tokenAddress, alertType, value) external onlyOwner
triggerAlert(sender, tokenAddress, alertType, value) ==
    LET r == triggerAlertResult(sender) IN
    /\ userMonitoring' =
          IF r = "ok"
          THEN alertMonitors(tokenMonitors[tokenAddress], 1, tokenAddress, userMonitoring)
          ELSE userMonitoring
    /\ UNCHANGED <<ledgerVars, tokenMonitors, userRequests, msgVars, domVars, now, guardVars>>
    /\ last' = Call("Monitoring", "triggerAlert", sender,
                    <<tokenAddress, alertType, value>>, r)

\* stopMonitoring(requestIndex) external: the two requires, on the caller's
\* own list.
stopMonitoringResult(sender, requestIndex) ==
    IF ~(requestIndex < Len(userMonitoring[sender])) THEN "Invalid request index"
    ELSE IF ~userMonitoring[sender][requestIndex + 1].active
         THEN "Monitoring already stopped"
    ELSE "ok"

stopMonitoring(sender, requestIndex) ==
    LET r == stopMonitoringResult(sender, requestIndex) IN
    /\ userMonitoring' =
          IF r = "ok"
          THEN [userMonitoring EXCEPT ![sender][requestIndex + 1].active = FALSE]
          ELSE userMonitoring
    /\ UNCHANGED <<ledgerVars, tokenMonitors, userRequests, msgVars, domVars, now, guardVars>>
    /\ last' = Call("Monitoring", "stopMonitoring", sender, <<requestIndex>>, r)

----------------------------------------------------------------------------
(* Universal *)

newMessage(sender, recipient, message, crossChain, destinationChain) ==
    [sender |-> sender, recipient |-> recipient, content |-> message,
     timestamp |-> now, payment |-> MESSAGE_COST, crossChain |-> crossChain,
     destinationChain |-> destinationChain]

sendMessageResult(sender, recipient, message) ==
    IF ~requirePayment(sender) THEN "InsufficientPayment"
    ELSE IF recipient = ZERO THEN "InvalidRecipient"
    ELSE IF Len(message) = 0 THEN "InvalidMessage"
    ELSE useFeatureResult("Universal", sender)

\* sendMessage(recipient, message) external requirePayment nonReentrant
sendMessage(sender, recipient, message) ==
    LET r == sendMessageResult(sender, recipient, message)
        m == newMessage(sender, recipient, message, FALSE, CHAIN_ID)
    IN
    /\ userPayments' = IF r = "ok" THEN useFeaturePayments(sender) ELSE userPayments
    /\ userFeatureUsage' = IF r = "ok" THEN useFeatureUsage(sender) ELSE userFeatureUsage
    /\ userMessages' =
          IF r = "ok" THEN [userMessages EXCEPT ![sender] = Append(@, m)] ELSE userMessages
    /\ receivedMessages' =
          IF r = "ok"
          THEN [receivedMessages EXCEPT ![recipient] = Append(@, m)]
          ELSE receivedMessages
    /\ allMessages' = IF r = "ok" THEN Append(allMessages, m) ELSE allMessages
    /\ UNCHANGED <<authorizedContracts, contractBalance, userRequests, monVars, domVars, now, guardVars>>
    /\ last' = Call("Universal", "sendMessage", sender, <<recipient, message>>, r)

\* Mutant: the destination chain is not compared with block.chainid.
sendCrossChainMessageResult_NoChainCheck(sender, destinationChain, recipient, message) ==
    IF ~requirePayment(sender) THEN "InsufficientPayment"
    ELSE IF recipient = ZERO THEN "InvalidRecipient"
    ELSE IF Len(message) = 0 THEN "InvalidMessage"
    ELSE useFeatureResult("Universal", sender)

sendCrossChainMessageResult(sender, destinationChain, recipient, message) ==
    IF ~requirePayment(sender) THEN "InsufficientPayment"
    ELSE IF recipient = ZERO THEN "InvalidRecipient"
    ELSE IF Len(message) = 0 THEN "InvalidMessage"
    ELSE IF destinationChain = CHAIN_ID THEN "InvalidRecipient"
    ELSE useFeatureResult("Universal", sender)

\* Mutant: the record is pushed to the recipient's received list as well.
sendCrossChainMessage_Received(sender, destinationChain, recipient, message) ==
    LET r == sendCrossChainMessageResult(sender, destinationChain, recipient, message)
        m == [sender |-> sender, recipient |-> recipient, content |-> message,
              timestamp |-> now, payment |-> MESSAGE_COST, crossChain |-> TRUE,
              destinationChain |-> destinationChain]
    IN
    /\ userPayments' = IF r = "ok" THEN useFeaturePayments(sender) ELSE userPayments
    /\ userFeatureUsage' = IF r = "ok" THEN useFeatureUsage(sender) ELSE userFeatureUsage
    /\ userMessages' =
          IF r = "ok" THEN [userMessages EXCEPT ![sender] = Append(@, m)] ELSE userMessages
    /\ receivedMessages' =
          IF r = "ok"
          THEN [receivedMessages EXCEPT ![recipient] = Append(@, m)]
          ELSE receivedMessages
    /\ allMessages' = IF r = "ok" THEN Append(allMessages, m) ELSE allMessages
    /\ UNCHANGED <<authorizedContracts, contractBalance,
                   userRequests, monVars, domVars, now, guardVars>>
    /\ last' = Call("Universal", "sendCrossChainMessage", sender,
                    <<destinationChain, recipient, message>>, r)

\* sendCrossChainMessage(destinationChain, recipient, message) external
\* requirePayment nonReentrant
sendCrossChainMessage(sender, destinationChain, recipient, message) ==
    LET r == sendCrossChainMessageResult(sender, destinationChain, recipient, message)
        m == newMessage(sender, recipient, message, TRUE, destinationChain)
    IN
    /\ userPayments' = IF r = "ok" THEN useFeaturePayments(sender) ELSE userPayments
    /\ userFeatureUsage' = IF r = "ok" THEN useFeatureUsage(sender) ELSE userFeatureUsage
    /\ userMessages' =
          IF r = "ok" THEN [userMessages EXCEPT ![sender] = Append(@, m)] ELSE userMessages
    /\ allMessages' = IF r = "ok" THEN Append(allMessages, m) ELSE allMessages
    /\ UNCHANGED <<authorizedContracts, contractBalance, receivedMessages,
                   userRequests, monVars, domVars, now, guardVars>>
    /\ last' = Call("Universal", "sendCrossChainMessage", sender,
                    <<destinationChain, recipient, message>>, r)

\* type(uint256).max, on a word as wide as the model checker's integers: the
\* offset and limit of the paginated reads are uint256, and offset + limit is
\* checked arithmetic, which reverts with Panic(0x11) when the sum is above
\* the word's largest value.
MAX_UINT == 2147483647

\* getAllMessages(offset, limit) external view: how the call ends.  The return
\* for offset >= total comes before the sum.
getAllMessagesResult(offset, limit) ==
    LET total == Len(allMessages) IN
    IF offset >= total THEN "ok"
    ELSE IF limit > MAX_UINT - offset THEN "Panic(0x11)"
    ELSE "ok"

\* The array getAllMessages returns when it does not revert: result[i - offset]
\* = allMessages[i] for offset <= i < end.  Solidity counts from 0, a TLA+
\* sequence from 1.
getAllMessagesReturn(offset, limit) ==
    LET total == Len(allMessages) IN
    IF offset >= total THEN <<>>
    ELSE LET end == IF offset + limit > total THEN total ELSE offset + limit IN
         [k \in 1..(end - offset) |-> allMessages[offset + k]]

\* The view as a call: no state changes, whoever calls.
getAllMessages(sender, offset, limit) ==
    /\ UNCHANGED <<ledgerVars, featureVars, now, guardVars>>
    /\ last' = Call("Universal", "getAllMessages", sender, <<offset, limit>>,
                    getAllMessagesResult(offset, limit))

----------------------------------------------------------------------------
(* DomainManagement *)

\* A slot of mapping(string => Domain) that was never written.
NoDomain ==
    [name |-> "", owner |-> ZERO, isTokenized |-> FALSE, tokenizedAt |-> 0,
     rights |-> [r \in RightNames |-> ZERO], isActive |-> FALSE]

\* modifier domainExists: passes when the stored name is not empty
domainExists(domainName) == Len(domains[domainName].name) # 0

\* Mutant: the registry's operator passes as well.
onlyDomainOwner_OrOperator(domainName, sender) ==
    domains[domainName].owner = sender \/ sender = owner

\* modifier onlyDomainOwner: passes when msg.sender is the stored owner
onlyDomainOwner(domainName, sender) == domains[domainName].owner = sender

\* Mutant: isTokenized is not looked at.
tokenizeDomainResult_NoTokenizedCheck(sender, domainName) ==
    IF Len(domainName) = 0 THEN "InvalidDomainName"
    ELSE useFeatureResult("DomainManagement", sender)

tokenizeDomainResult(sender, domainName) ==
    IF Len(domainName) = 0 THEN "InvalidDomainName"
    ELSE IF domains[domainName].isTokenized THEN "DomainAlreadyTokenized"
    ELSE useFeatureResult("DomainManagement", sender)

tokenizedDomain(domain, sender, domainName) ==
    [domain EXCEPT !.name = domainName, !.owner = sender, !.isTokenized = TRUE,
                   !.tokenizedAt = now, !.isActive = TRUE]

\* tokenizeDomain(domainName) external nonReentrant
tokenizeDomain(sender, domainName) ==
    LET r == tokenizeDomainResult(sender, domainName) IN
    /\ userPayments' = IF r = "ok" THEN useFeaturePayments(sender) ELSE userPayments
    /\ userFeatureUsage' = IF r = "ok" THEN useFeatureUsage(sender) ELSE userFeatureUsage
    /\ domains' =
          IF r = "ok"
          THEN [domains EXCEPT ![domainName] = tokenizedDomain(@, sender, domainName)]
          ELSE domains
    /\ allDomains' = IF r = "ok" THEN Append(allDomains, domainName) ELSE allDomains
    /\ userDomains' =
          IF r = "ok"
          THEN [userDomains EXCEPT ![sender] = Append(@, domainName)]
          ELSE userDomains
    /\ UNCHANGED <<authorizedContracts, contractBalance, domainRights,
                   userRequests, monVars, msgVars, now, guardVars>>
    /\ last' = Call("DomainManagement", "tokenizeDomain", sender, <<domainName>>, r)

\* Mutant: the domain's owner is served without the debit being asked for.
ownerPaidResult_Free(sender, domainName) ==
    IF ~domainExists(domainName) THEN "DomainNotExists"
    ELSE IF ~onlyDomainOwner(domainName, sender) THEN "NotDomainOwner"
    ELSE "ok"

\* The modifiers and the debit shared by grantDomainRight and transferDomain:
\* domainExists, onlyDomainOwner, nonReentrant, then dToken.useFeature(msg.sender).
ownerPaidResult(sender, domainName) ==
    IF ~domainExists(domainName) THEN "DomainNotExists"
    ELSE IF ~onlyDomainOwner(domainName, sender) THEN "NotDomainOwner"
    ELSE useFeatureResult("DomainManagement", sender)

\* Mutant: the duration is stored as the expiry.
grantExpiresAt_DurationOnly(duration) == duration

\* duration == 0 ? 0 : block.timestamp + duration
grantExpiresAt(duration) == IF duration = 0 THEN 0 ELSE now + duration

newRight(domainName, rightName, holder, duration) ==
    [rightName |-> rightName,
     description |-> "Right: " \o rightName \o " for domain: " \o domainName,
     holder |-> holder, grantedAt |-> now, expiresAt |-> grantExpiresAt(duration)]

\* grantDomainRight(domainName, rightName, holder, duration) external
\* domainExists onlyDomainOwner nonReentrant
grantDomainRight(sender, domainName, rightName, holder, duration) ==
    LET r == ownerPaidResult(sender, domainName) IN
    /\ userPayments' = IF r = "ok" THEN useFeaturePayments(sender) ELSE userPayments
    /\ userFeatureUsage' = IF r = "ok" THEN useFeatureUsage(sender) ELSE userFeatureUsage
    /\ domains' =
          IF r = "ok"
          THEN [domains EXCEPT ![domainName].rights[rightName] = holder]
          ELSE domains
    /\ domainRights' =
          IF r = "ok"
          THEN [domainRights EXCEPT ![domainName] =
                    Append(@, newRight(domainName, rightName, holder, duration))]
          ELSE domainRights
    /\ UNCHANGED <<authorizedContracts, contractBalance, userDomains, allDomains,
                   userRequests, monVars, msgVars, now, guardVars>>
    /\ last' = Call("DomainManagement", "grantDomainRight", sender,
                    <<domainName, rightName, holder, duration>>, r)

\* revokeDomainRight(domainName, rightName) external domainExists
\* onlyDomainOwner: no debit and no guard.
revokeDomainRightResult(sender, domainName, rightName) ==
    IF ~domainExists(domainName) THEN "DomainNotExists"
    ELSE IF ~onlyDomainOwner(domainName, sender) THEN "NotDomainOwner"
    ELSE IF domains[domainName].rights[rightName] = ZERO THEN "RightNotExists"
    ELSE "ok"

revokeDomainRight(sender, domainName, rightName) ==
    LET r == revokeDomainRightResult(sender, domainName, rightName) IN
    /\ domains' =
          IF r = "ok"
          THEN [domains EXCEPT ![domainName].rights[rightName] = ZERO]
          ELSE domains
    /\ UNCHANGED <<ledgerVars, domainRights, userDomains, allDomains,
                   userRequests, monVars, msgVars, now, guardVars>>
    /\ last' = Call("DomainManagement", "revokeDomainRight", sender,
                    <<domainName, rightName>>, r)

\* The loop of hasRight over the domain's grants: it stops at the first grant
\* with the right's name and the user as holder; 0 when there is none.
firstGrant(rights, rightName, user) ==
    IF \E i \in 1..Len(rights) : rights[i].rightName = rightName /\ rights[i].holder = user
    THEN CHOOSE i \in 1..Len(rights) :
            /\ rights[i].rightName = rightName /\ rights[i].holder = user
            /\ \A j \in 1..(i - 1) :
                  ~(rights[j].rightName = rightName /\ rights[j].holder = user)
    ELSE 0

\* hasRight(domainName, rightName, user) external view domainExists: the value
\* returned for a domain that exists (for another name the call reverts with
\* DomainNotExists).
hasRight(domainName, rightName, user) ==
    LET rights == domainRights[domainName]
        i == firstGrant(rights, rightName, user)
    IN
    IF domains[domainName].rights[rightName] # user THEN FALSE
    ELSE IF i = 0 THEN FALSE
    ELSE rights[i].expiresAt = 0 \/ rights[i].expiresAt > now

\* A block with a later timestamp: block.timestamp is what every call reads.
mineBlock(timestamp) ==
    /\ timestamp > now
    /\ now' = timestamp
    /\ UNCHANGED <<ledgerVars, featureVars, guardVars>>
    /\ last' = Call("chain", "block", ZERO, <<timestamp>>, "ok")

\* Mutant: the list loses its last entry without the name's slot being
\* overwritten first.
removeDomain_PopOnly(fromDomains, domainName) ==
    IF \E i \in 1..Len(fromDomains) : fromDomains[i] = domainName
    THEN SubSeq(fromDomains, 1, Len(fromDomains) - 1)
    ELSE fromDomains

\* The loop of transferDomain over the old owner's list: the first entry equal
\* to the name is overwritten with the last entry and the list loses its last
\* entry; a list without the name is left as it is.  keccak256 of two strings
\* is equal exactly when the strings are.
removeDomain(fromDomains, domainName) ==
    IF \E i \in 1..Len(fromDomains) : fromDomains[i] = domainName
    THEN LET i == CHOOSE k \in 1..Len(fromDomains) :
                     /\ fromDomains[k] = domainName
                     /\ \A j \in 1..(k - 1) : fromDomains[j] # domainName
             moved == [fromDomains EXCEPT ![i] = fromDomains[Len(fromDomains)]]
         IN SubSeq(moved, 1, Len(fromDomains) - 1)
    ELSE fromDomains

\* Mutant: the name is pushed to the new owner's list and left in the old
\* owner's.
transferredLists_NoRemoval(from, to, domainName) ==
    [userDomains EXCEPT ![to] = Append(@, domainName)]

\* userDomains after transferDomain: the push to the new owner's list comes
\* first, then the removal from the old owner's list.
transferredLists(from, to, domainName) ==
    LET pushed == [userDomains EXCEPT ![to] = Append(@, domainName)] IN
    [pushed EXCEPT ![from] = removeDomain(@, domainName)]

\* Mutant: the transfer clears the domain's live rights.
transferDomain_RightsCleared(sender, domainName, to) ==
    LET r == ownerPaidResult(sender, domainName) IN
    /\ userPayments' = IF r = "ok" THEN useFeaturePayments(sender) ELSE userPayments
    /\ userFeatureUsage' = IF r = "ok" THEN useFeatureUsage(sender) ELSE userFeatureUsage
    /\ domains' =
          IF r = "ok"
          THEN [domains EXCEPT ![domainName].owner = to,
                               ![domainName].rights = [x \in RightNames |-> ZERO]]
          ELSE domains
    /\ userDomains' =
          IF r = "ok"
          THEN transferredLists(domains[domainName].owner, to, domainName)
          ELSE userDomains
    /\ UNCHANGED <<authorizedContracts, contractBalance, domainRights, allDomains,
                   userRequests, monVars, msgVars, now, guardVars>>
    /\ last' = Call("DomainManagement", "transferDomain", sender, <<domainName, to>>, r)

\* transferDomain(domainName, to) external domainExists onlyDomainOwner nonReentrant
transferDomain(sender, domainName, to) ==
    LET r == ownerPaidResult(sender, domainName) IN
    /\ userPayments' = IF r = "ok" THEN useFeaturePayments(sender) ELSE userPayments
    /\ userFeatureUsage' = IF r = "ok" THEN useFeatureUsage(sender) ELSE userFeatureUsage
    /\ domains' = IF r = "ok" THEN [domains EXCEPT ![domainName].owner = to] ELSE domains
    /\ userDomains' =
          IF r = "ok"
          THEN transferredLists(domains[domainName].owner, to, domainName)
          ELSE userDomains
    /\ UNCHANGED <<authorizedContracts, contractBalance, domainRights, allDomains,
                   userRequests, monVars, msgVars, now, guardVars>>
    /\ last' = Call("DomainManagement", "transferDomain", sender, <<domainName, to>>, r)

\* Mutant: the modifier is onlyDomainOwner.
syncDomainStateResult_DomainOwner(sender, domainName) ==
    IF ~onlyDomainOwner(domainName, sender) THEN "NotDomainOwner"
    ELSE IF ~domainExists(domainName) THEN "DomainNotExists"
    ELSE "ok"

\* syncDomainState(domainName, isActive) external onlyOwner domainExists: how
\* the call ends.
syncDomainStateResult(sender, domainName) ==
    IF ~onlyOwner(sender) THEN "OwnableUnauthorizedAccount"
    ELSE IF ~domainExists(domainName) THEN "DomainNotExists"
    ELSE "ok"

syncDomainState(sender, domainName, isActive) ==
    LET r == syncDomainStateResult(sender, domainName) IN
    /\ domains' =
          IF r = "ok" THEN [domains EXCEPT ![domainName].isActive = isActive] ELSE domains
    /\ UNCHANGED <<ledgerVars, domainRights, userDomains, allDomains,
                   userRequests, monVars, msgVars, now, guardVars>>
    /\ last' = Call("DomainManagement", "syncDomainState", sender,
                    <<domainName, isActive>>, r)

\* getAllDomains(offset, limit) external view: how the call ends.
getAllDomainsResult(offset, limit) ==
    LET total == Len(allDomains) IN
    IF offset >= total THEN "ok"
    ELSE IF limit > MAX_UINT - offset THEN "Panic(0x11)"
    ELSE "ok"

\* The array getAllDomains returns when it does not revert.
getAllDomainsReturn(offset, limit) ==
    LET total == Len(allDomains) IN
    IF offset >= total THEN <<>>
    ELSE LET end == IF offset + limit > total THEN total ELSE offset + limit IN
         [k \in 1..(end - offset) |-> allDomains[offset + k]]

getAllDomains(sender, offset, limit) ==
    /\ UNCHANGED <<ledgerVars, featureVars, now, guardVars>>
    /\ last' = Call("DomainManagement", "getAllDomains", sender, <<offset, limit>>,
                    getAllDomainsResult(offset, limit))

----------------------------------------------------------------------------
\* The browser tabs that run the frontend's request flows, and the wallet
\* account both are connected to.
Tabs == {"tab1", "tab2"}
signer == "alice"

(* Initial state: after the deployment script has run *)

Init ==
    /\ authorizedContracts = [a \in Addresses |-> a \in FeatureContracts]
    /\ userPayments = [a \in Accounts |-> 0]
    /\ userFeatureUsage = [a \in Accounts |-> 0]
    /\ contractBalance = 0
    /\ userRequests = [l \in Logs |-> [a \in Accounts |-> <<>>]]
    /\ userMonitoring = [a \in Accounts |-> <<>>]
    /\ tokenMonitors = [t \in TokenNames \cup {""} |-> <<>>]
    /\ userMessages = [a \in Accounts |-> <<>>]
    /\ receivedMessages = [a \in Accounts |-> <<>>]
    /\ allMessages = <<>>
    /\ domains = [n \in DomainNames \cup {""} |-> NoDomain]
    /\ domainRights = [n \in DomainNames \cup {""} |-> <<>>]
    /\ userDomains = [a \in Accounts \cup {ZERO} |-> <<>>]
    /\ allDomains = <<>>
    /\ now = 0
    /\ status = "NOT_ENTERED"
    /\ sending = 0
    /\ flows = [t \in Tabs |-> "idle"]
    /\ last = NoCall

\* The credit an account is let to reach.
CreditRoom(a, value) == userPayments[a] + value <= MaxCredits * FEATURE_COST

\* The number of debits made so far.
TotalUsage ==
    userFeatureUsage[deployer] + userFeatureUsage["alice"] + userFeatureUsage["bob"]

\* The number of debits the model lets happen.
UsageRoom == TotalUsage < MaxUses

\* The accounts that hold credit, the accounts that call useFeature themselves
\* (an account the owner has authorized is a spender like any contract), and
\* the accounts that try the owner's functions.
Users == {"alice", "bob"}
Spenders == {deployer, "bob"}
Admins == {deployer, "alice"}

NextLedger ==
    \/ \E s \in Admins, c \in Spenders, b \in BOOLEAN : authorizeContract(s, c, b) /\ UNCHANGED flows
    \/ \E s \in Users, v \in Values :
          (payForFeatureResult(v) = "ok" => CreditRoom(s, v)) /\ payForFeature(s, v) /\ UNCHANGED flows
    \/ \E s \in Spenders, u \in Users :
          (useFeatureResult(s, u) = "ok" => UsageRoom) /\ useFeature(s, u) /\ UNCHANGED flows
    \/ \E s \in Admins, n \in WithdrawAmounts : withdrawETH(s, n) /\ UNCHANGED flows
    \/ \E s \in Users, v \in Values : CreditRoom(s, v) /\ receive(s, v) /\ UNCHANGED flows
    \/ \E s \in Users, v \in Values : CreditRoom(s, v) /\ fallback(s, v) /\ UNCHANGED flows

\* The ledger alone: deposits, plain transfers, direct debits by accounts,
\* authorization and withdrawal.
SpecLedger == Init /\ [][NextLedger]_vars

----------------------------------------------------------------------------
(* Properties of the ledger, checked under SpecLedger *)

\* C1, as stated: in every step every credit balance stays the same or moves
\* by exactly one feature price, whatever the operation (a plain transfer
\* handled by receive / fallback included).
C1_OnlyPriceSteps ==
    [][\A u \in Accounts :
          userPayments'[u] - userPayments[u] \in {0, FEATURE_COST, -FEATURE_COST}]_vars

\* C1, amended: in every step the credit balance of every account u stays the
\* same, or grows by exactly the price through u's successful payForFeature,
\* or falls by exactly the price through a successful useFeature(u), or grows
\* by the amount attached (any amount) to u's plain transfer handled by
\* receive / fallback.
C1_CreditSteps ==
    [][\A u \in Accounts :
          LET d == userPayments'[u] - userPayments[u] IN
          \/ d = 0
          \/ /\ d = FEATURE_COST
             /\ last'.op = "payForFeature" /\ last'.sender = u /\ last'.result = "ok"
          \/ /\ d = -FEATURE_COST
             /\ last'.op = "useFeature" /\ last'.args[1] = u /\ last'.result = "ok"
          \/ /\ last'.op \in {"receive", "fallback"} /\ last'.sender = u
             /\ d = last'.args[1]]_vars

\* C1 witness: a plain transfer of half a price has just been credited to an
\* account that was debited before.
C1_HalfPriceCredited ==
    /\ last.op \in {"receive", "fallback"}
    /\ last.args[1] = FEATURE_COST \div 2
    /\ userPayments[last.sender] = FEATURE_COST \div 2
    /\ userFeatureUsage[last.sender] > 0

\* C2: a useFeature call by a caller that is not in authorizedContracts ends
\* with UnauthorizedContract and changes no credit balance and no usage counter.
C2_UnauthorizedCannotDebit ==
    [][(last'.op = "useFeature" /\ ~authorizedContracts[last'.sender])
          => /\ last'.result = "UnauthorizedContract"
             /\ userPayments' = userPayments
             /\ userFeatureUsage' = userFeatureUsage]_vars

\* C2 witness: after earlier debits, an unauthorized caller's useFeature on a
\* user who holds a full price of credit has just been rejected.
C2_RejectedWithCredit ==
    /\ last.op = "useFeature" /\ last.result = "UnauthorizedContract"
    /\ ~authorizedContracts[last.sender]
    /\ hasFeaturePayment(last.args[1])
    /\ TotalUsage > 0

\* C5: a useFeature(user) call by an authorized caller when the user's credit
\* is below the price ends with InsufficientPayment and leaves the user's
\* balance and usage counter as they were; no credit balance is ever negative.
C5_InsufficientCredit ==
    /\ [](\A u \in Accounts : userPayments[u] >= 0)
    /\ [][(/\ last'.op = "useFeature"
            /\ authorizedContracts[last'.sender]
            /\ userPayments[last'.args[1]] < FEATURE_COST)
          => /\ last'.result = "InsufficientPayment"
             /\ userPayments' = userPayments
             /\ userFeatureUsage' = userFeatureUsage]_vars

\* C5 witness: an authorized caller's useFeature on a user who holds half a
\* price has just been rejected.
C5_RejectedHalfPrice ==
    /\ last.op = "useFeature" /\ last.result = "InsufficientPayment"
    /\ authorizedContracts[last.sender]
    /\ userPayments[last.args[1]] = FEATURE_COST \div 2

\* C6: payForFeature succeeds only with exactly the price attached, and then
\* the caller's credit grows by it and no other credit changes; with any other
\* amount it fails and no credit balance and no held currency changes.
C6_ExactDeposit ==
    [][last'.op = "payForFeature"
          => /\ last'.result = "ok"
                => /\ last'.args[1] = FEATURE_COST
                   /\ userPayments' =
                         [userPayments EXCEPT ![last'.sender] = @ + FEATURE_COST]
             /\ last'.args[1] # FEATURE_COST
                => /\ last'.result # "ok"
                   /\ userPayments' = userPayments
                   /\ contractBalance' = contractBalance]_vars

\* C6 witness: a payForFeature with twice the price attached has just failed,
\* for a caller who holds credit from an earlier deposit.
C6_DoublePriceRejected ==
    /\ last.op = "payForFeature" /\ last.args[1] = 2 * FEATURE_COST
    /\ last.result = "InsufficientPayment"
    /\ userPayments[last.sender] = FEATURE_COST
    /\ contractBalance >= FEATURE_COST

\* C7: a successful authorizeContract(S, b) sets S's entry to b; an entry of
\* authorizedContracts changes only in a successful authorizeContract call of
\* the owner, and only the entry named; a useFeature call succeeds only if its
\* caller's entry is true.  So from authorizeContract(S, false) until the
\* owner's next authorizeContract(S, true) every useFeature by S fails.
C7_AuthorizationGate ==
    /\ [][(last'.op = "authorizeContract" /\ last'.result = "ok")
            => authorizedContracts'[last'.args[1]] = last'.args[2]]_vars
    /\ [][authorizedContracts' # authorizedContracts
            => /\ last'.op = "authorizeContract" /\ last'.result = "ok"
               /\ last'.sender = owner
               /\ \A a \in Addresses \ {last'.args[1]} :
                     authorizedContracts'[a] = authorizedContracts[a]]_vars
    /\ [][(last'.op = "useFeature" /\ last'.result = "ok")
            => authorizedContracts[last'.sender]]_vars

\* C7 witness: debits were made, every account that made them has since lost
\* its authorization, and a useFeature has just been rejected for that.
C7_RejectedAfterRevocation ==
    /\ last.op = "useFeature" /\ last.result = "UnauthorizedContract"
    /\ TotalUsage >= 2
    /\ \A a \in Accounts : ~authorizedContracts[a]

\* The sum of all credit balances the ledger holds.
TotalCredit == userPayments[deployer] + userPayments["alice"] + userPayments["bob"]

\* The amount a withdrawETH(amount) call resolves to in the current state.
Resolved(amount) == IF amount = 0 THEN contractBalance ELSE amount

\* C12, as stated: in every reachable state the sum of all credit balances
\* is at most the currency the ledger holds.
C12_CreditBacked == TotalCredit <= contractBalance

\* C12, amended: the currency held covers the outstanding credit until a
\* withdrawal takes it out.  In every step the excess of the currency held
\* over the sum of the credit balances stays the same or grows, except in a
\* successful withdrawETH by the owner, which lowers it by exactly the amount
\* withdrawn whatever credit is outstanding.
C12_OnlyWithdrawUnbacks ==
    [][\/ contractBalance' - TotalCredit' >= contractBalance - TotalCredit
       \/ /\ last'.op = "withdrawETH" /\ last'.result = "ok" /\ last'.sender = owner
          /\ TotalCredit' = TotalCredit
          /\ contractBalance' = contractBalance - Resolved(last'.args[1])]_vars

\* C12 witness: the owner has just withdrawn currency and the ledger now
\* holds less than the credit that is outstanding.
C12_WithdrawnBelowCredit ==
    /\ last.op = "withdrawETH" /\ last.result = "ok"
    /\ TotalCredit > contractBalance
    /\ TotalUsage > 0

----------------------------------------------------------------------------
(* The request logs over the ledger *)

\* ContractService.ensurePaymentCredit: the frontend deposits the price before
\* a feature call only when hasFeaturePayment(user) is false.
ensurePaymentCredit(user) == ~hasFeaturePayment(user)

\* The accounts that request analyses (the owner of the logs among them) and
\* the results the owner records.
LogUsers == {deployer, "alice"}
Targets == TargetNames \cup {""}
Results == {<<82, "low risk">>, <<50, "x">>}

NextLog ==
    \/ \E s \in LogUsers : ensurePaymentCredit(s) /\ payForFeature(s, FEATURE_COST) /\ UNCHANGED flows
    \/ \E l \in Logs, s \in LogUsers, t \in Targets :
          (requestAnalysisResult(l, s, t) = "ok" => UsageRoom) /\ requestAnalysis(l, s, t) /\ UNCHANGED flows
    \/ \E l \in Logs, s \in LogUsers, u \in LogUsers, res \in Results :
          \E i \in 0..Len(userRequests[l][u]) :
             completeAnalysis(l, s, u, i, res[1], res[2]) /\ UNCHANGED flows

SpecLog == Init /\ [][NextLog]_vars

----------------------------------------------------------------------------
(* Properties of the request logs, checked under SpecLog *)

\* The call c is a request / a completion made to a request log.
IsRequest(c) == c.to \in Logs /\ c.op = RequestOp(c.to)
IsComplete(c) == c.to \in Logs /\ c.op = CompleteOp(c.to)

\* The record a completion call c names, when its index is in the list.
InRange(c) == c.args[2] < Len(userRequests[c.to][c.args[1]])
Named(c) == userRequests[c.to][c.args[1]][c.args[2] + 1]

\* C3: in every request log a completion call on a record that is already
\* completed fails (for the owner with "Analysis already completed") and
\* changes no record; a completed record keeps its place and every field,
\* its score and text among them, in every later step.
C3_CompletedIsFinal ==
    /\ [][(IsComplete(last') /\ InRange(last') /\ Named(last').completed)
            => /\ last'.result # "ok"
               /\ last'.sender = owner => last'.result = "Analysis already completed"
               /\ userRequests' = userRequests]_vars
    /\ [][\A l \in Logs, u \in Accounts :
            \A i \in 1..Len(userRequests[l][u]) :
               userRequests[l][u][i].completed
               => /\ i <= Len(userRequests'[l][u])
                  /\ userRequests'[l][u][i] = userRequests[l][u][i]]_vars

\* C3 witness: the owner's second completion (50, "x") of a record completed
\* with (82, "low risk") has just been rejected, and the record still holds
\* the first result.
C3_SecondCompletionRejected ==
    /\ IsComplete(last) /\ last.result = "Analysis already completed"
    /\ last.args[3] = 50 /\ last.args[4] = "x"
    /\ Named(last).completed
    /\ Named(last).score = 82 /\ Named(last).analysis = "low risk"

\* C4: a request by U with a non-empty target, credit of at least the price
\* and the log authorized succeeds; a request that succeeds takes exactly one
\* price from U's credit, adds one to U's usage counter and appends, after the
\* records U's list in that log already holds, exactly one record with
\* requester U, the given target, payment equal to the price, completed false,
\* score 0 and empty text; no other credit, counter or list changes.
C4_RequestEffect ==
    [][IsRequest(last')
          => LET l == last'.to
                 u == last'.sender
                 old == userRequests[l][u]
                 new == userRequests'[l][u]
             IN
             /\ (/\ Len(last'.args[1]) > 0
                 /\ userPayments[u] >= FEATURE_COST
                 /\ authorizedContracts[l]) => last'.result = "ok"
             /\ last'.result = "ok"
                => /\ userPayments' = [userPayments EXCEPT ![u] = @ - FEATURE_COST]
                   /\ userFeatureUsage' = [userFeatureUsage EXCEPT ![u] = @ + 1]
                   /\ Len(new) = Len(old) + 1
                   /\ SubSeq(new, 1, Len(old)) = old
                   /\ new[Len(new)].user = u
                   /\ new[Len(new)].target = last'.args[1]
                   /\ new[Len(new)].payment = FEATURE_COST
                   /\ new[Len(new)].completed = FALSE
                   /\ new[Len(new)].score = 0
                   /\ new[Len(new)].analysis = ""
                   /\ \A k \in Logs, a \in Accounts :
                         (k # l \/ a # u) => userRequests'[k][a] = userRequests[k][a]]_vars

\* C4 witness: a request has just succeeded whose record is the second of the
\* caller's list, behind a completed one, and took the caller's last credit.
C4_SecondRequestAppended ==
    /\ IsRequest(last) /\ last.result = "ok"
    /\ Len(userRequests[last.to][last.sender]) = 2
    /\ userRequests[last.to][last.sender][1].completed
    /\ ~userRequests[last.to][last.sender][2].completed
    /\ userPayments[last.sender] = 0
    /\ userFeatureUsage[last.sender] = 2

\* C10, as stated: a completion succeeds only by the log's owner on an index
\* within the user's list whose record is pending; by any other account, or
\* with an index at or past the list's length, it fails and changes no record;
\* and a completion call whose caller is the record's requester never succeeds.
C10_OnlyOwnerNeverRequester ==
    [][IsComplete(last')
          => /\ last'.result = "ok"
                => /\ last'.sender = owner
                   /\ InRange(last')
                   /\ ~Named(last').completed
             /\ (last'.sender # owner \/ ~InRange(last'))
                => (last'.result # "ok" /\ userRequests' = userRequests)
             /\ last'.sender = last'.args[1] => last'.result # "ok"]_vars

\* C10, amended: as stated, but the requester is kept from completing their
\* own record only when the requester is not the log's owner: the owner
\* completes the records of its own requests like any other.
C10_OnlyOwner ==
    [][IsComplete(last')
          => /\ last'.result = "ok"
                => /\ last'.sender = owner
                   /\ InRange(last')
                   /\ ~Named(last').completed
             /\ (last'.sender # owner \/ ~InRange(last'))
                => (last'.result # "ok" /\ userRequests' = userRequests)
             /\ (last'.sender = last'.args[1] /\ last'.sender # owner)
                => (last'.result # "ok" /\ userRequests' = userRequests)]_vars

\* C10 witness: a requester who is not the owner has just failed to complete
\* their own pending record.
C10_RequesterRejected ==
    /\ IsComplete(last) /\ last.result = "OwnableUnauthorizedAccount"
    /\ last.sender = last.args[1] /\ last.sender # owner
    /\ InRange(last) /\ ~Named(last).completed

C28_PendingBlocksNothing ==
    /\ [][IsRequest(last')
            => (last'.result = "ok"
                <=> /\ Len(last'.args[1]) > 0
                    /\ userPayments[last'.sender] >= FEATURE_COST
                    /\ authorizedContracts[last'.to])]_vars
    /\ [][IsComplete(last')
            => (last'.result = "ok"
                <=> /\ last'.sender = owner
                    /\ InRange(last')
                    /\ ~Named(last').completed)]_vars
    /\ [][\A l \in Logs, u \in Accounts :
            \A i \in 1..Len(userRequests[l][u]) :
               (/\ ~userRequests[l][u][i].completed
                /\ ~(/\ IsComplete(last') /\ last'.result = "ok" /\ last'.to = l
                     /\ last'.args[1] = u /\ last'.args[2] = i - 1))
               => ~userRequests'[l][u][i].completed]_vars

\* C28 witness: the owner has just completed the second record of a user's
\* list, which the user submitted while the first was pending; the first is
\* still pending.
C28_LaterRecordCompletedFirst ==
    /\ IsComplete(last) /\ last.result = "ok" /\ last.args[2] = 1
    /\ last.args[1] # owner
    /\ Named(last).completed
    /\ ~userRequests[last.to][last.args[1]][1].completed

----------------------------------------------------------------------------
(* Every paid entry point over the ledger *)

Callers == {"alice"}
Recipients == {"bob", ZERO}
Messages == {"", "gm"}
Chains == {CHAIN_ID, 1}
Durations == {0, 1}

Next ==
    \/ \E s \in Callers : ensurePaymentCredit(s) /\ payForFeature(s, FEATURE_COST) /\ UNCHANGED flows
    \/ \E s \in Callers :
          CreditRoom(s, FEATURE_COST \div 2) /\ receive(s, FEATURE_COST \div 2) /\ UNCHANGED flows
    \/ \E l \in Logs, s \in Callers, t \in Targets :
          (requestAnalysisResult(l, s, t) = "ok" => UsageRoom) /\ requestAnalysis(l, s, t) /\ UNCHANGED flows
    \/ \E s \in Callers, t \in Targets :
          (requestMonitoringResult(s, t) = "ok" => UsageRoom) /\ requestMonitoring(s, t, 500) /\ UNCHANGED flows
    \/ \E s \in Callers, to \in Recipients, m \in Messages :
          (sendMessageResult(s, to, m) = "ok" => UsageRoom) /\ sendMessage(s, to, m) /\ UNCHANGED flows
    \/ \E s \in Callers, c \in Chains, to \in Recipients, m \in Messages :
          (sendCrossChainMessageResult(s, c, to, m) = "ok" => UsageRoom)
          /\ sendCrossChainMessage(s, c, to, m) /\ UNCHANGED flows
    \/ \E s \in Callers, n \in DomainNames \cup {""} :
          (tokenizeDomainResult(s, n) = "ok" => UsageRoom) /\ tokenizeDomain(s, n) /\ UNCHANGED flows
    \/ \E s \in Callers, n \in DomainNames, x \in RightNames, d \in Durations :
          (ownerPaidResult(s, n) = "ok" => UsageRoom)
          /\ grantDomainRight(s, n, x, "bob", d) /\ UNCHANGED flows
    \/ \E s \in Callers, n \in DomainNames, to \in Recipients :
          (ownerPaidResult(s, n) = "ok" => UsageRoom) /\ transferDomain(s, n, to) /\ UNCHANGED flows

Spec == Init /\ [][Next]_vars

----------------------------------------------------------------------------
(* Properties of the paid entry points, checked under Spec *)

\* The call c is one of the four feature requests (the three request logs'
\* and Monitoring's); its first argument is the target identifier.
IsFeatureRequest(c) ==
    \/ c.to \in Logs /\ c.op = RequestOp(c.to)
    \/ c.to = "Monitoring" /\ c.op = "requestMonitoring"

\* The name under which a feature request rejects an empty target.
InvalidTargetOf(c) == IF c.to \in Logs THEN InvalidTarget(c.to) ELSE "InvalidTokenAddress"

\* The call c is one of the nine paid entry points.
IsPaidCall(c) ==
    \/ IsFeatureRequest(c)
    \/ c.to = "Universal" /\ c.op \in {"sendMessage", "sendCrossChainMessage"}
    \/ c.to = "DomainManagement"
       /\ c.op \in {"tokenizeDomain", "grantDomainRight", "transferDomain"}

\* C8, as stated: a feature request with an empty target fails with the
\* contract's invalid-target error, and the caller's credit, usage counter and
\* record lists are unchanged.
C8_EmptyTargetInvalid ==
    [][(IsFeatureRequest(last') /\ Len(last'.args[1]) = 0)
          => /\ last'.result = InvalidTargetOf(last')
             /\ UNCHANGED <<userPayments, userFeatureUsage, userRequests, monVars>>]_vars

\* C8, amended: a feature request with an empty target fails and leaves the
\* caller's credit, usage counter and record lists unchanged; it fails with
\* the contract's invalid-target error when the caller's credit is at least
\* the price, and with InsufficientPayment, the credit check coming first,
\* when it is below the price.
C8_EmptyTargetRejected ==
    [][(IsFeatureRequest(last') /\ Len(last'.args[1]) = 0)
          => /\ last'.result = IF userPayments[last'.sender] >= FEATURE_COST
                                THEN InvalidTargetOf(last')
                                ELSE "InsufficientPayment"
             /\ UNCHANGED <<userPayments, userFeatureUsage, userRequests, monVars>>]_vars

\* C8 witness: a caller holding credit and earlier records has just had a
\* request with an empty target rejected as an invalid target.
C8_EmptyTargetWithCredit ==
    /\ IsFeatureRequest(last) /\ last.args[1] = ""
    /\ last.result = InvalidTargetOf(last)
    /\ userPayments[last.sender] >= FEATURE_COST
    /\ userFeatureUsage[last.sender] > 0

\* C9: each of the nine paid entry points fails when the caller's credit is
\* below the feature price, and then no credit, no usage counter and no
\* record, message, domain or right changes.
C9_NoCreditNoService ==
    [][(IsPaidCall(last') /\ userPayments[last'.sender] < FEATURE_COST)
          => /\ last'.result # "ok"
             /\ UNCHANGED <<ledgerVars, featureVars>>]_vars

\* C9 witness: the owner of a tokenized domain, holding half the price, has
\* just been refused a transfer of that domain for want of credit.
C9_TransferRefusedHalfPrice ==
    /\ last.to = "DomainManagement" /\ last.op = "transferDomain"
    /\ last.result = "InsufficientPayment"
    /\ domains[last.args[1]].owner = last.sender
    /\ userPayments[last.sender] = FEATURE_COST \div 2

\* The call c is a deposit made by payForFeature that succeeded.
IsDeposit(c) == c.to = "DToken" /\ c.op = "payForFeature" /\ c.result = "ok"

\* The call c is a plain transfer of currency to the ledger.
IsPlainTransfer(c) == c.to = "DToken" /\ c.op \in {"receive", "fallback"}

\* C11, as stated: a paid call that succeeds takes exactly one price from a
\* caller who held at least one, so that a caller who held exactly one price
\* is left with none and hasFeaturePayment false; a paid call by a caller
\* whose credit is below the price fails; and such a caller's credit reaches
\* the price again only through the caller's own successful payForFeature
\* (each deposit adding exactly one price, n deposits pay for at most n uses).
C11_OneDepositOneUse ==
    /\ [][(IsPaidCall(last') /\ last'.result = "ok")
            => /\ userPayments[last'.sender] >= FEATURE_COST
               /\ userPayments'[last'.sender] = userPayments[last'.sender] - FEATURE_COST
               /\ userPayments[last'.sender] = FEATURE_COST
                  => (userPayments'[last'.sender] = 0
                      /\ ~(userPayments'[last'.sender] >= FEATURE_COST))]_vars
    /\ [][(IsPaidCall(last') /\ ~hasFeaturePayment(last'.sender))
            => last'.result # "ok"]_vars
    /\ [][\A u \in Accounts :
            (~hasFeaturePayment(u) /\ hasFeaturePayment(u)')
            => (IsDeposit(last') /\ last'.sender = u
                /\ userPayments'[u] = userPayments[u] + FEATURE_COST)]_vars

\* C11, amended: as stated, but a caller whose credit is below the price gets
\* it back to the price through a payForFeature deposit or through a plain
\* transfer handled by receive / fallback, which credits whatever amount is
\* attached: it is the currency sent, in deposits and transfers together,
\* that pays one use per price.
C11_OnePriceOneUse ==
    /\ [][(IsPaidCall(last') /\ last'.result = "ok")
            => /\ userPayments[last'.sender] >= FEATURE_COST
               /\ userPayments'[last'.sender] = userPayments[last'.sender] - FEATURE_COST
               /\ userPayments[last'.sender] = FEATURE_COST
                  => (userPayments'[last'.sender] = 0
                      /\ ~(userPayments'[last'.sender] >= FEATURE_COST))]_vars
    /\ [][(IsPaidCall(last') /\ ~hasFeaturePayment(last'.sender))
            => last'.result # "ok"]_vars
    /\ [][\A u \in Accounts :
            (~hasFeaturePayment(u) /\ hasFeaturePayment(u)')
            => /\ last'.sender = u
               /\ \/ IsDeposit(last') /\ userPayments'[u] = userPayments[u] + FEATURE_COST
                  \/ IsPlainTransfer(last')
                     /\ userPayments'[u] = userPayments[u] + last'.args[1]]_vars

\* C11 witness: a caller whose one deposit was used up by one successful paid
\* call has just been refused a second paid call.
C11_SecondUseRefused ==
    /\ IsPaidCall(last) /\ last.result = "InsufficientPayment"
    /\ userFeatureUsage[last.sender] = 1
    /\ userPayments[last.sender] = 0

----------------------------------------------------------------------------
(* The ledger with an owner that runs code when it is sent currency *)

\* The accounts that send currency to the ledger and make paid calls, the
\* owner's own code among them; the amounts asked of withdrawETH.
Reentrants == {deployer, "alice"}
SendAmounts == {0, FEATURE_COST}

\* Every call below can be made from inside the owner's code while
\* withdrawETH's sendValue is running, or outside of it.
NextWithdraw ==
    \/ \E s \in Reentrants :
          (payForFeatureResult(FEATURE_COST) = "ok" => CreditRoom(s, FEATURE_COST))
          /\ payForFeature(s, FEATURE_COST) /\ UNCHANGED flows
    \/ \E s \in Reentrants :
          CreditRoom(s, FEATURE_COST \div 2) /\ receive(s, FEATURE_COST \div 2) /\ UNCHANGED flows
    \/ \E s \in Reentrants :
          CreditRoom(s, FEATURE_COST \div 2) /\ fallback(s, FEATURE_COST \div 2) /\ UNCHANGED flows
    \/ \E s \in Reentrants :
          (requestAnalysisResult("ContractAnalysis", s, "0xAbc") = "ok" => UsageRoom)
          /\ requestAnalysis("ContractAnalysis", s, "0xAbc") /\ UNCHANGED flows
    \/ \E s \in Reentrants, n \in SendAmounts :
          withdrawETHResult(s, n) # "ok" /\ withdrawETH(s, n) /\ UNCHANGED flows
    \/ \E s \in Reentrants, n \in SendAmounts : withdrawETHSend(s, n) /\ UNCHANGED flows
    \/ withdrawETHReturn /\ UNCHANGED flows

SpecWithdraw == Init /\ [][NextWithdraw]_vars

\* C14, as stated: while withdrawETH's transfer is running, a nested call of
\* withdrawETH, of payForFeature or of a paid entry point (whose debit is
\* useFeature) is rejected and changes nothing; the currency held does not go
\* down again and no credit balance changes before the transfer returns; the
\* return releases the guard, after which payForFeature with the price
\* succeeds again.
C14_NothingMovesInWindow ==
    /\ [][(status = "ENTERED" /\ status' = "ENTERED")
            => /\ (last'.op \in {"withdrawETH", "payForFeature"} \/ IsPaidCall(last'))
                  => (last'.result # "ok" /\ UNCHANGED <<ledgerVars, featureVars>>)
               /\ contractBalance' >= contractBalance
               /\ userPayments' = userPayments]_vars
    /\ [][status = "NOT_ENTERED"
            => /\ status' = "ENTERED"
                  => /\ last'.op = "withdrawETH"
                     /\ contractBalance' = contractBalance - sending'
                     /\ sending' = Resolved(last'.args[1])
               /\ (last'.op = "payForFeature" /\ last'.args[1] = FEATURE_COST)
                  => last'.result = "ok"]_vars
    /\ [][(status = "ENTERED" /\ status' = "NOT_ENTERED")
            => UNCHANGED <<ledgerVars, featureVars>>]_vars

\* C14, amended: as stated, except that receive and fallback carry no guard:
\* while the transfer is running a plain transfer to the ledger is accepted
\* and raises its sender's credit (and the currency held) by the amount
\* attached; no credit balance changes in any other way before the return.
C14_OnlyPlainTransfersInWindow ==
    /\ [][(status = "ENTERED" /\ status' = "ENTERED")
            => /\ (last'.op \in {"withdrawETH", "payForFeature"} \/ IsPaidCall(last'))
                  => (last'.result # "ok" /\ UNCHANGED <<ledgerVars, featureVars>>)
               /\ contractBalance' >= contractBalance
               /\ \/ userPayments' = userPayments
                  \/ /\ IsPlainTransfer(last')
                     /\ userPayments' =
                           [userPayments EXCEPT ![last'.sender] = @ + last'.args[1]]
                     /\ contractBalance' = contractBalance + last'.args[1]]_vars
    /\ [][status = "NOT_ENTERED"
            => /\ status' = "ENTERED"
                  => /\ last'.op = "withdrawETH"
                     /\ contractBalance' = contractBalance - sending'
                     /\ sending' = Resolved(last'.args[1])
               /\ (last'.op = "payForFeature" /\ last'.args[1] = FEATURE_COST)
                  => last'.result = "ok"]_vars
    /\ [][(status = "ENTERED" /\ status' = "NOT_ENTERED")
            => UNCHANGED <<ledgerVars, featureVars>>]_vars

\* C14 witness: while a transfer is running and currency is still held, the
\* owner's nested withdrawETH has just been rejected by the guard.
C14_NestedWithdrawRejected ==
    /\ status = "ENTERED"
    /\ last.op = "withdrawETH" /\ last.sender = owner
    /\ last.result = "ReentrancyGuardReentrantCall"
    /\ contractBalance >= FEATURE_COST

----------------------------------------------------------------------------
(* The paid entry points while the owner changes the authorized set *)

\* The feature contracts the owner takes out of, and puts back into, the
\* authorized set.
Revocable == {"ContractAnalysis", "Monitoring", "Universal", "DomainManagement"}

NextRevocable ==
    \/ \E s \in Callers : ensurePaymentCredit(s) /\ payForFeature(s, FEATURE_COST) /\ UNCHANGED flows
    \/ \E c \in Revocable, b \in BOOLEAN : authorizeContract(deployer, c, b) /\ UNCHANGED flows
    \/ \E s \in Callers, t \in Targets :
          (requestAnalysisResult("ContractAnalysis", s, t) = "ok" => UsageRoom)
          /\ requestAnalysis("ContractAnalysis", s, t) /\ UNCHANGED flows
    \/ \E s \in Callers, t \in Targets :
          (requestMonitoringResult(s, t) = "ok" => UsageRoom) /\ requestMonitoring(s, t, 500) /\ UNCHANGED flows
    \/ \E s \in Callers, m \in Messages :
          (sendMessageResult(s, "bob", m) = "ok" => UsageRoom) /\ sendMessage(s, "bob", m) /\ UNCHANGED flows
    \/ \E s \in Callers, c \in Chains :
          (sendCrossChainMessageResult(s, c, "bob", "gm") = "ok" => UsageRoom)
          /\ sendCrossChainMessage(s, c, "bob", "gm") /\ UNCHANGED flows
    \/ \E s \in Callers, n \in {"a.doma", ""} :
          (tokenizeDomainResult(s, n) = "ok" => UsageRoom) /\ tokenizeDomain(s, n) /\ UNCHANGED flows
    \/ \E s \in Callers, n \in DomainNames :
          (ownerPaidResult(s, n) = "ok" => UsageRoom)
          /\ grantDomainRight(s, n, "DNS_MANAGEMENT", "bob", 0) /\ UNCHANGED flows
    \/ \E s \in Callers, n \in DomainNames :
          (ownerPaidResult(s, n) = "ok" => UsageRoom) /\ transferDomain(s, n, "bob") /\ UNCHANGED flows

SpecRevocable == Init /\ [][NextRevocable]_vars

\* C15: a call of a feature contract that fails, at whatever step, leaves the
\* feature contracts' state (records, subscriber index, messages, domains,
\* rights, lists) and the ledger's state (credit, usage) as they were before
\* the call; and a paid entry point of a feature contract that is not in the
\* authorized set fails so, whatever credit the caller holds.
C15_AllOrNothing ==
    /\ [][(last'.to \in FeatureContracts /\ last'.result # "ok")
            => UNCHANGED <<ledgerVars, featureVars>>]_vars
    /\ [][(IsPaidCall(last') /\ ~authorizedContracts[last'.to])
            => (last'.result # "ok" /\ UNCHANGED <<ledgerVars, featureVars>>)]_vars

\* C15 witness: Monitoring, which had served the caller before, is no
\* longer authorized, and the caller's request, with credit and a target, has
\* just failed at the nested debit.
C15_DebitRejectedAfterRevocation ==
    /\ last.to = "Monitoring" /\ last.op = "requestMonitoring"
    /\ last.result = "UnauthorizedContract"
    /\ ~authorizedContracts["Monitoring"]
    /\ hasFeaturePayment(last.sender)
    /\ Len(userMonitoring[last.sender]) = 1

----------------------------------------------------------------------------
(* DomainManagement over the ledger, with time passing *)

\* The latest block.timestamp of a run.
MaxTime == 2

\* The largest number of debits in a run of the domain registry.
MaxDomainUses == 3

DomainUsageRoom == TotalUsage < MaxDomainUses

\* The account that pays and tokenizes, the accounts that try to tokenize, the
\* accounts that try the domain owner's functions (the registry's operator
\* among them), the holders a right is granted to and the accounts a domain
\* is transferred to.  A name that has not been tokenized yet is the name
\* that does not exist.
Payers == {"alice"}
Tokenizers == {"alice", "bob"}
DomainCallers == {"alice", "bob", deployer}
Holders == {"bob", ZERO}
Receivers == {"bob"}

NextDomain ==
    \/ \E s \in Payers : ensurePaymentCredit(s) /\ payForFeature(s, FEATURE_COST) /\ UNCHANGED flows
    \/ \E s \in Tokenizers, n \in {"a.doma", ""} :
          (tokenizeDomainResult(s, n) = "ok" => DomainUsageRoom) /\ tokenizeDomain(s, n) /\ UNCHANGED flows
    \/ \E s \in DomainCallers, x \in RightNames, h \in Holders, d \in Durations :
          (ownerPaidResult(s, "a.doma") = "ok" => DomainUsageRoom)
          /\ grantDomainRight(s, "a.doma", x, h, d) /\ UNCHANGED flows
    \/ \E s \in DomainCallers, x \in RightNames : revokeDomainRight(s, "a.doma", x) /\ UNCHANGED flows
    \/ \E s \in DomainCallers, to \in Receivers :
          (ownerPaidResult(s, "a.doma") = "ok" => DomainUsageRoom)
          /\ transferDomain(s, "a.doma", to) /\ UNCHANGED flows
    \/ now < MaxTime /\ mineBlock(now + 1) /\ UNCHANGED flows

SpecDomain == Init /\ [][NextDomain]_vars

\* The addresses hasRight is asked about.
Askers == {"alice", "bob", deployer, ZERO}

\* The latest grant of the right in the domain's history (grantDomainRight
\* writes the live entry and pushes the grant together); 0 when there is none.
latestGrant(rights, rightName) ==
    IF \E i \in 1..Len(rights) : rights[i].rightName = rightName
    THEN CHOOSE i \in 1..Len(rights) :
            /\ rights[i].rightName = rightName
            /\ \A j \in (i + 1)..Len(rights) : rights[j].rightName # rightName
    ELSE 0

\* The live entry of (domainName, rightName) is user and was set by a grant
\* that is still the latest one.
AssignedBy(domainName, rightName, user) ==
    /\ domains[domainName].rights[rightName] = user
    /\ latestGrant(domainRights[domainName], rightName) # 0
    /\ domainRights[domainName][latestGrant(domainRights[domainName], rightName)].holder = user

\* expiresAt of the latest grant of the right.
AssignedUntil(domainName, rightName) ==
    domainRights[domainName][latestGrant(domainRights[domainName], rightName)].expiresAt

\* C16: for every tokenized domain, right and address, when the time is past
\* the nonzero expiresAt of the grant that assigns the right to the address,
\* hasRight returns false, whatever grants came before.
C16_ExpiredGrantDenied ==
    \A n \in DomainNames, x \in RightNames, a \in Askers :
       (/\ domains[n].isTokenized
        /\ AssignedBy(n, x, a)
        /\ AssignedUntil(n, x) # 0
        /\ now > AssignedUntil(n, x))
       => ~hasRight(n, x, a)

\* C17: for every tokenized domain, right and address, hasRight is true
\* exactly when the live entry is the address and the grant that set it has
\* expiresAt = 0 or expiresAt > now.
C17_LatestGrantDecides ==
    \A n \in DomainNames, x \in RightNames, a \in Askers :
       domains[n].isTokenized
       => (hasRight(n, x, a)
           <=> /\ AssignedBy(n, x, a)
               /\ AssignedUntil(n, x) = 0 \/ AssignedUntil(n, x) > now)

\* The call c is a successful revokeDomainRight / grantDomainRight.
IsRevoke(c) == c.to = "DomainManagement" /\ c.op = "revokeDomainRight"
IsGrant(c) == c.to = "DomainManagement" /\ c.op = "grantDomainRight"

\* C18: after a successful revokeDomainRight(name, right) hasRight(name,
\* right, a) is false for every address a, address(0) among them, and stays
\* false until the next grant of that right; the owner's revokeDomainRight of
\* a right with no live holder fails with RightNotExists; a failed
\* revokeDomainRight changes nothing and no revokeDomainRight changes a
\* credit balance or a usage counter.
C18_RevokedForAll ==
    /\ [][\A n \in DomainNames, x \in RightNames :
            (/\ IsRevoke(last') /\ last'.result = "ok"
             /\ last'.args[1] = n /\ last'.args[2] = x)
            => \A a \in Askers : ~hasRight(n, x, a)']_vars
    /\ [][\A n \in DomainNames, x \in RightNames :
            (/\ domains[n].rights[x] = ZERO
             /\ \A a \in Askers : ~hasRight(n, x, a)
             /\ ~(IsGrant(last') /\ last'.result = "ok"
                  /\ last'.args[1] = n /\ last'.args[2] = x))
            => \A a \in Askers : ~hasRight(n, x, a)']_vars
    /\ [][IsRevoke(last')
            => /\ (/\ domains[last'.args[1]].owner = last'.sender
                   /\ domainExists(last'.args[1])
                   /\ domains[last'.args[1]].rights[last'.args[2]] = ZERO)
                  => last'.result = "RightNotExists"
               /\ last'.result # "ok" => UNCHANGED <<ledgerVars, featureVars>>
               /\ UNCHANGED <<ledgerVars, domainRights>>]_vars

\* The number of times a name occurs in a list of names.
Occurrences(list, name) == Cardinality({i \in 1..Len(list) : list[i] = name})

\* The call c is a tokenizeDomain call.
IsTokenize(c) == c.to = "DomainManagement" /\ c.op = "tokenizeDomain"

\* C19: a name is tokenized at most once.  A tokenized domain stays tokenized
\* under its name in every later step; tokenizeDomain of a tokenized name, by
\* any caller, ends with DomainAlreadyTokenized and changes neither the owner
\* nor any credit, counter or list; tokenizeDomain of the empty name ends with
\* InvalidDomainName; and no name is in allDomains twice.
C19_TokenizedOnce ==
    /\ [][\A n \in DomainNames :
            domains[n].isTokenized
            => (domains'[n].isTokenized /\ domains'[n].name = n)]_vars
    /\ [][IsTokenize(last')
            => /\ domains[last'.args[1]].isTokenized
                  => /\ last'.result = "DomainAlreadyTokenized"
                     /\ UNCHANGED <<ledgerVars, featureVars>>
               /\ last'.args[1] = ""
                  => /\ last'.result = "InvalidDomainName"
                     /\ UNCHANGED <<ledgerVars, featureVars>>
               /\ last'.result = "ok" => ~domains[last'.args[1]].isTokenized]_vars
    /\ [](\A n \in DomainNames : Occurrences(allDomains, n) <= 1)

\* C19 witness: a caller who holds a full price of credit has just been
\* refused the tokenization of a name that was tokenized and has since been
\* transferred.
C19_SecondTokenizeRefused ==
    /\ IsTokenize(last) /\ last.result = "DomainAlreadyTokenized"
    /\ hasFeaturePayment(last.sender)
    /\ domains[last.args[1]].owner = "bob"
    /\ domains[last.args[1]].owner # last.sender

\* The call c is one of the domain owner's three functions; its first argument
\* is the domain's name.
IsOwnerCall(c) ==
    /\ c.to = "DomainManagement"
    /\ c.op \in {"grantDomainRight", "revokeDomainRight", "transferDomain"}

\* C20: grantDomainRight, revokeDomainRight and transferDomain succeed only
\* for the account that is the domain's owner when the call is made.  On a
\* name that is not tokenized the call ends with DomainNotExists; on a
\* tokenized domain a call by any other account (the registry's operator and
\* an earlier owner among them) ends with NotDomainOwner; in both cases no
\* state changes and nothing is debited.
C20_OnlyCurrentOwner ==
    [][IsOwnerCall(last')
          => LET n == last'.args[1] IN
             /\ last'.result = "ok"
                => (domains[n].isTokenized /\ domains[n].owner = last'.sender)
             /\ ~domains[n].isTokenized
                => /\ last'.result = "DomainNotExists"
                   /\ UNCHANGED <<ledgerVars, featureVars>>
             /\ (domains[n].isTokenized /\ domains[n].owner # last'.sender)
                => /\ last'.result = "NotDomainOwner"
                   /\ UNCHANGED <<ledgerVars, featureVars>>]_vars

\* C20 witness: the account that tokenized the domain and transferred it away
\* holds credit and has just been refused a transfer of it.
C20_EarlierOwnerRefused ==
    /\ last.to = "DomainManagement" /\ last.op = "transferDomain"
    /\ last.result = "NotDomainOwner"
    /\ last.sender = "alice"
    /\ hasFeaturePayment("alice")
    /\ domains[last.args[1]].owner = "bob"
    /\ allDomains = <<last.args[1]>>


----------------------------------------------------------------------------
(* The registry's lists of names, with several names and two owners *)

\* The largest number of debits in a run of tokenizations and transfers.
MaxTransferUses == 4

TransferUsageRoom == TotalUsage < MaxTransferUses

\* The accounts that pay and own domains, the account that tokenizes, and the
\* accounts a domain is transferred to (the owner itself and address(0) among
\* them).
DomainOwners == {"alice", "bob"}
Registrants == {"alice"}
NewOwners == {"alice", "bob", ZERO}

NextTransfer ==
    \/ \E s \in DomainOwners : ensurePaymentCredit(s) /\ payForFeature(s, FEATURE_COST) /\ UNCHANGED flows
    \/ \E s \in Registrants, n \in DomainNames :
          (tokenizeDomainResult(s, n) = "ok" => TransferUsageRoom) /\ tokenizeDomain(s, n) /\ UNCHANGED flows
    \/ \E s \in DomainOwners, n \in DomainNames, to \in NewOwners :
          (ownerPaidResult(s, n) = "ok" => TransferUsageRoom) /\ transferDomain(s, n, to) /\ UNCHANGED flows

SpecTransfer == Init /\ [][NextTransfer]_vars

\* The call c is a transferDomain call; its arguments are the name and the
\* new owner.
IsTransfer(c) == c.to = "DomainManagement" /\ c.op = "transferDomain"

\* C21: after a successful transferDomain(name, B) by the owner A, with A # B,
\* the name is in B's list exactly once and not in A's list, every other name
\* of A's list is still in it exactly once (A's list is one shorter), and the
\* domain's owner is B, whatever the name's position in A's list was.
C21_TransferMovesName ==
    [][(IsTransfer(last') /\ last'.result = "ok" /\ last'.sender # last'.args[2])
          => LET A == last'.sender
                 name == last'.args[1]
                 B == last'.args[2]
             IN
             /\ domains[name].owner = A
             /\ Occurrences(userDomains'[B], name) = 1
             /\ Occurrences(userDomains'[A], name) = 0
             /\ \A m \in DomainNames \ {name} :
                   Occurrences(userDomains[A], m) >= 1
                   => Occurrences(userDomains'[A], m) = 1
             /\ Len(userDomains'[A]) = Len(userDomains[A]) - 1
             /\ domains'[name].owner = B]_vars

\* C21 witness: the owner of three names has just transferred the first name
\* of its list; the last name has taken the first slot.
C21_FirstOfThreeTransferred ==
    /\ IsTransfer(last) /\ last.result = "ok"
    /\ last.sender = "alice" /\ last.args = <<"a.doma", "bob">>
    /\ allDomains = <<"a.doma", "b.doma", "c.doma">>
    /\ userDomains["alice"] = <<"c.doma", "b.doma">>
    /\ userDomains["bob"] = <<"a.doma">>
    /\ domains["a.doma"].owner = "bob"

----------------------------------------------------------------------------
(* Universal's message lists and the registry's list of names, with their  *)
(* paginated reads                                                         *)

\* The largest number of debits in a run of sends and tokenizations.
MaxListUses == 3

ListUsageRoom == TotalUsage < MaxListUses

\* The accounts that send, the recipients a sender names (the other sender
\* and address(0)), the names that are tokenized, the account that reads, and
\* the offsets and limits asked of the reads: the ends of the range and values
\* inside a short list.
Senders == {"alice", "bob"}
Addressees(s) == (Senders \ {s}) \cup {ZERO}
ListedNames == {"a.doma", "b.doma"}
Readers == {"bob"}
Offsets == {0, 1, MAX_UINT}
Limits == {0, 2, MAX_UINT}

NextLists ==
    \/ \E s \in Senders : ensurePaymentCredit(s) /\ payForFeature(s, FEATURE_COST) /\ UNCHANGED flows
    \/ \E s \in Senders : \E to \in Addressees(s), m \in Messages :
          (sendMessageResult(s, to, m) = "ok" => ListUsageRoom) /\ sendMessage(s, to, m) /\ UNCHANGED flows
    \/ \E s \in Senders, c \in Chains : \E to \in Addressees(s), m \in Messages :
          (sendCrossChainMessageResult(s, c, to, m) = "ok" => ListUsageRoom)
          /\ sendCrossChainMessage(s, c, to, m) /\ UNCHANGED flows
    \/ \E s \in Registrants, n \in ListedNames :
          (tokenizeDomainResult(s, n) = "ok" => ListUsageRoom) /\ tokenizeDomain(s, n) /\ UNCHANGED flows
    \/ \E s \in Readers, o \in Offsets, l \in Limits : getAllMessages(s, o, l) /\ UNCHANGED flows
    \/ \E s \in Readers, o \in Offsets, l \in Limits : getAllDomains(s, o, l) /\ UNCHANGED flows

SpecLists == Init /\ [][NextLists]_vars

\* The entries of a list at the indices [offset, min(offset + limit, total)),
\* counted from 0, in the list's order; empty when offset >= total.
Slice(list, offset, limit) ==
    LET total == Len(list) IN
    IF offset >= total THEN <<>>
    ELSE SubSeq(list, offset + 1,
                IF limit >= total - offset THEN total ELSE offset + limit)

IsGetAllMessages(c) == c.to = "Universal" /\ c.op = "getAllMessages"
IsGetAllDomains(c) == c.to = "DomainManagement" /\ c.op = "getAllDomains"

\* C22: for every offset and limit, getAllMessages(offset, limit) and
\* getAllDomains(offset, limit) do not fail and return the entries at the
\* indices [offset, min(offset + limit, total)) in insertion order, the empty
\* sequence when offset >= total.
C22_PagesNeverFail ==
    /\ IsGetAllMessages(last)
       => /\ last.result = "ok"
          /\ getAllMessagesReturn(last.args[1], last.args[2])
                = Slice(allMessages, last.args[1], last.args[2])
    /\ IsGetAllDomains(last)
       => /\ last.result = "ok"
          /\ getAllDomainsReturn(last.args[1], last.args[2])
                = Slice(allDomains, last.args[1], last.args[2])

\* What holds of the reads: a read that does not revert returns the slice, and
\* a read reverts exactly when offset < total and offset + limit is above the
\* largest uint256.
PagesWithinRange ==
    /\ IsGetAllMessages(last)
       => IF last.args[1] < Len(allMessages) /\ last.args[2] > MAX_UINT - last.args[1]
          THEN last.result = "Panic(0x11)"
          ELSE /\ last.result = "ok"
               /\ getAllMessagesReturn(last.args[1], last.args[2])
                     = Slice(allMessages, last.args[1], last.args[2])
    /\ IsGetAllDomains(last)
       => IF last.args[1] < Len(allDomains) /\ last.args[2] > MAX_UINT - last.args[1]
          THEN last.result = "Panic(0x11)"
          ELSE /\ last.result = "ok"
               /\ getAllDomainsReturn(last.args[1], last.args[2])
                     = Slice(allDomains, last.args[1], last.args[2])

\* The call c is a sendMessage call (recipient, message) / a
\* sendCrossChainMessage call (destinationChain, recipient, message).
IsSend(c) == c.to = "Universal" /\ c.op = "sendMessage"
IsCrossSend(c) == c.to = "Universal" /\ c.op = "sendCrossChainMessage"

\* The first list is the beginning of the second.
IsPrefix(old, new) == Len(old) <= Len(new) /\ SubSeq(new, 1, Len(old)) = old

\* The lengths of all sent lists / all received lists, added up.
TotalSent ==
    Len(userMessages[deployer]) + Len(userMessages["alice"]) + Len(userMessages["bob"])

TotalReceived ==
    Len(receivedMessages[deployer]) + Len(receivedMessages["alice"])
        + Len(receivedMessages["bob"])

\* The number of stored messages that are not cross-chain.
SameChainMessages ==
    Cardinality({i \in 1..Len(allMessages) : ~allMessages[i].crossChain})

\* C23: a successful sendMessage appends one and the same record to the
\* sender's sent list, the recipient's received list and the global list, and
\* leaves every other list alone; a successful sendCrossChainMessage appends
\* it to the sender's sent list and the global list and leaves every received
\* list alone.  The global list is as long as all sent lists together, all
\* received lists together are as long as the number of same-chain messages,
\* and in every step every list keeps the entries it has, in their places.
C23_MessageIndices ==
    /\ [][(IsSend(last') /\ last'.result = "ok")
            => LET s == last'.sender
                   to == last'.args[1]
                   m == allMessages'[Len(allMessages')]
               IN
               /\ allMessages' = Append(allMessages, m)
               /\ userMessages' = [userMessages EXCEPT ![s] = Append(@, m)]
               /\ receivedMessages' = [receivedMessages EXCEPT ![to] = Append(@, m)]
               /\ m.sender = s /\ m.recipient = to /\ m.content = last'.args[2]
               /\ ~m.crossChain]_vars
    /\ [][(IsCrossSend(last') /\ last'.result = "ok")
            => LET s == last'.sender
                   m == allMessages'[Len(allMessages')]
               IN
               /\ allMessages' = Append(allMessages, m)
               /\ userMessages' = [userMessages EXCEPT ![s] = Append(@, m)]
               /\ receivedMessages' = receivedMessages
               /\ m.sender = s /\ m.recipient = last'.args[2]
               /\ m.content = last'.args[3] /\ m.crossChain]_vars
    /\ [][/\ IsPrefix(allMessages, allMessages')
          /\ \A a \in Accounts :
                /\ IsPrefix(userMessages[a], userMessages'[a])
                /\ IsPrefix(receivedMessages[a], receivedMessages'[a])]_vars
    /\ [](Len(allMessages) = TotalSent /\ TotalReceived = SameChainMessages)

\* C23 witness: two senders have sent; the global list holds a same-chain
\* message of one and a cross-chain message of the other, and the cross-chain
\* one was sent last.
C23_BothKindsStored ==
    /\ IsCrossSend(last) /\ last.result = "ok" /\ last.sender = "bob"
    /\ Len(allMessages) = 2
    /\ ~allMessages[1].crossChain /\ allMessages[1].sender = "alice"
    /\ allMessages[2].crossChain
    /\ receivedMessages["bob"] = <<allMessages[1]>>
    /\ receivedMessages["alice"] = <<>>
    /\ userMessages["bob"] = <<allMessages[2]>>

\* Every stored message: cross-chain exactly when its destination chain is not
\* the local chain.
ChainMarked(list) ==
    \A i \in 1..Len(list) : list[i].crossChain <=> list[i].destinationChain # CHAIN_ID

\* C24 as stated: every sendCrossChainMessage whose destination is the local
\* chain id fails with InvalidRecipient and debits nothing; every stored
\* message is cross-chain exactly when its destination chain is not the local
\* one; a send to address(0) or of an empty text fails and debits nothing.
C24_LocalChainInvalidRecipient ==
    /\ [][(IsCrossSend(last') /\ last'.args[1] = CHAIN_ID)
            => /\ last'.result = "InvalidRecipient"
               /\ UNCHANGED <<ledgerVars, featureVars>>]_vars
    /\ [][((IsSend(last') /\ (last'.args[1] = ZERO \/ last'.args[2] = ""))
           \/ (IsCrossSend(last') /\ (last'.args[2] = ZERO \/ last'.args[3] = "")))
            => /\ last'.result # "ok"
               /\ UNCHANGED <<ledgerVars, featureVars>>]_vars
    /\ [](/\ ChainMarked(allMessages)
          /\ \A a \in Accounts :
                ChainMarked(userMessages[a]) /\ ChainMarked(receivedMessages[a]))

\* C24: a sendCrossChainMessage whose destination is the local chain id fails
\* and debits nothing: with InsufficientPayment when the caller's credit is
\* below the price, else with InvalidRecipient when the recipient is
\* address(0), else with InvalidMessage when the text is empty, else with
\* InvalidRecipient.  Every stored message is cross-chain exactly when its
\* destination chain is not the local one; a send to address(0) or of an empty
\* text fails and debits nothing.
C24_LocalChainRejected ==
    /\ [][(IsCrossSend(last') /\ last'.args[1] = CHAIN_ID)
            => /\ last'.result =
                     (IF ~hasFeaturePayment(last'.sender) THEN "InsufficientPayment"
                      ELSE IF last'.args[2] = ZERO THEN "InvalidRecipient"
                      ELSE IF last'.args[3] = "" THEN "InvalidMessage"
                      ELSE "InvalidRecipient")
               /\ UNCHANGED <<ledgerVars, featureVars>>]_vars
    /\ [][((IsSend(last') /\ (last'.args[1] = ZERO \/ last'.args[2] = ""))
           \/ (IsCrossSend(last') /\ (last'.args[2] = ZERO \/ last'.args[3] = "")))
            => /\ last'.result # "ok"
               /\ UNCHANGED <<ledgerVars, featureVars>>]_vars
    /\ [](/\ ChainMarked(allMessages)
          /\ \A a \in Accounts :
                ChainMarked(userMessages[a]) /\ ChainMarked(receivedMessages[a]))

\* C24 witness: a sender who holds the price and has a message stored has just
\* been refused a cross-chain send of a text to an account on the local chain.
C24_LocalChainWithCredit ==
    /\ IsCrossSend(last) /\ last.result = "InvalidRecipient"
    /\ last.args = <<CHAIN_ID, "bob", "gm">>
    /\ hasFeaturePayment(last.sender)
    /\ Len(userMessages[last.sender]) = 1

----------------------------------------------------------------------------
(* Monitoring over the ledger: subscriptions, alerts and unsubscribing *)

\* The largest number of debits in a run of the monitoring contract, and the
\* alert count from which the operator raises no further alert.
MaxMonitorUses == 2

MaxAlerts == 1

MonitorUsageRoom == TotalUsage < MaxMonitorUses

AlertRoom ==
    \A u \in Accounts : \A j \in 1..Len(userMonitoring[u]) :
        userMonitoring[u][j].alertCount < MaxAlerts

\* The accounts that subscribe, the accounts that try to unsubscribe and to
\* raise alerts (the operator among them), and the indices asked of
\* stopMonitoring.
Subscribers == {"alice", "bob"}
Unsubscribers == {"alice", "bob", deployer}
Alerters == {deployer, "alice"}
StopIndices == 0..1

NextMonitoring ==
    \/ \E s \in Subscribers : ensurePaymentCredit(s) /\ payForFeature(s, FEATURE_COST) /\ UNCHANGED flows
    \/ \E s \in Subscribers, t \in TokenNames :
          (requestMonitoringResult(s, t) = "ok" => MonitorUsageRoom)
          /\ requestMonitoring(s, t, 500) /\ UNCHANGED flows
    \/ \E s \in Alerters, t \in TokenNames :
          (triggerAlertResult(s) = "ok" => AlertRoom)
          /\ triggerAlert(s, t, "PRICE_SPIKE", 7) /\ UNCHANGED flows
    \/ \E s \in Unsubscribers, i \in StopIndices : stopMonitoring(s, i) /\ UNCHANGED flows

SpecMonitoring == Init /\ [][NextMonitoring]_vars

IsStop(c) == c.to = "Monitoring" /\ c.op = "stopMonitoring"
IsTrigger(c) == c.to = "Monitoring" /\ c.op = "triggerAlert"

\* C25: a subscription is active when it is created; an active subscription
\* becomes inactive only in a successful stopMonitoring call made by the
\* account in whose list it is, naming its index; an inactive subscription
\* stays inactive; and no subscription leaves its list or its place.
C25_ActiveOnlyStoppedByOwner ==
    [][\A u \in Accounts :
          /\ Len(userMonitoring'[u]) >= Len(userMonitoring[u])
          /\ \A j \in 1..Len(userMonitoring'[u]) :
                IF j > Len(userMonitoring[u])
                THEN userMonitoring'[u][j].active /\ userMonitoring'[u][j].user = u
                ELSE /\ ~userMonitoring[u][j].active => ~userMonitoring'[u][j].active
                     /\ (userMonitoring[u][j].active /\ ~userMonitoring'[u][j].active)
                        => /\ IsStop(last') /\ last'.result = "ok"
                           /\ last'.sender = u /\ last'.args[1] = j - 1]_vars

\* C25 witness: the operator has just raised an alert for the token of a
\* subscription that its owner stopped; the subscription is still inactive,
\* and another subscription of the same owner is active.
C25_StoppedStaysStopped ==
    /\ IsTrigger(last) /\ last.result = "ok"
    /\ Len(userMonitoring["alice"]) = 2
    /\ userMonitoring["alice"][1].tokenAddress = last.args[1]
    /\ ~userMonitoring["alice"][1].active
    /\ userMonitoring["alice"][2].active

\* C26: a successful triggerAlert(target, ...) is made by the operator and
\* adds exactly one to the alert counter of every active subscription whose
\* target is the given one, and nothing to the counter of any other
\* subscription; it changes nothing else.
C26_OneAlertEach ==
    [][IsTrigger(last')
          => /\ last'.result = "ok" <=> last'.sender = owner
             /\ UNCHANGED <<ledgerVars, tokenMonitors>>
             /\ \A u \in Accounts :
                   /\ Len(userMonitoring'[u]) = Len(userMonitoring[u])
                   /\ \A j \in 1..Len(userMonitoring[u]) :
                         LET before == userMonitoring[u][j] IN
                         userMonitoring'[u][j] =
                            IF /\ last'.result = "ok"
                               /\ before.active
                               /\ before.tokenAddress = last'.args[1]
                            THEN [before EXCEPT !.alertCount = @ + 1]
                            ELSE before]_vars

\* What holds of triggerAlert: a successful call adds to the counter of an
\* active subscription for the target one for every entry its user has in
\* the target's subscriber list, which is one for every subscription the
\* user ever made to the target.
AlertsPerMonitorEntry ==
    [][(IsTrigger(last') /\ last'.result = "ok")
          => \A u \in Accounts :
                /\ Len(userMonitoring'[u]) = Len(userMonitoring[u])
                /\ \A j \in 1..Len(userMonitoring[u]) :
                      LET before == userMonitoring[u][j] IN
                      userMonitoring'[u][j] =
                         IF before.active /\ before.tokenAddress = last'.args[1]
                         THEN [before EXCEPT !.alertCount =
                                  @ + Occurrences(tokenMonitors[last'.args[1]], u)]
                         ELSE before]_vars

----------------------------------------------------------------------------
(* The registry's record of one domain: grants, revocations, a transfer and *)
(* the operator's synchronization, with time passing                        *)

\* The accounts that try to synchronize the domain's state (the registry's
\* operator and the domain's first owner) and the accounts that try the
\* domain owner's functions.
Syncers == {deployer, "alice"}
RightGivers == {"alice", "bob"}

NextRegistry ==
    \/ \E s \in Payers : ensurePaymentCredit(s) /\ payForFeature(s, FEATURE_COST) /\ UNCHANGED flows
    \/ \E s \in Payers :
          (tokenizeDomainResult(s, "a.doma") = "ok" => DomainUsageRoom)
          /\ tokenizeDomain(s, "a.doma") /\ UNCHANGED flows
    \/ \E s \in RightGivers, x \in RightNames, h \in Holders, d \in Durations :
          (ownerPaidResult(s, "a.doma") = "ok" => DomainUsageRoom)
          /\ grantDomainRight(s, "a.doma", x, h, d) /\ UNCHANGED flows
    \/ \E s \in Payers, x \in RightNames : revokeDomainRight(s, "a.doma", x) /\ UNCHANGED flows
    \/ \E s \in Payers, to \in Receivers :
          (ownerPaidResult(s, "a.doma") = "ok" => DomainUsageRoom)
          /\ transferDomain(s, "a.doma", to) /\ UNCHANGED flows
    \/ \E s \in Syncers, b \in BOOLEAN : syncDomainState(s, "a.doma", b) /\ UNCHANGED flows
    \/ now < MaxTime /\ mineBlock(now + 1) /\ UNCHANGED flows

SpecRegistry == Init /\ [][NextRegistry]_vars

\* C29: the grant history of a domain is append-only.  A successful
\* grantDomainRight appends exactly one entry, with the right's name, the
\* holder, the time of the grant and expiresAt 0 when the duration is 0,
\* otherwise the time of the grant plus the duration, and makes the holder the
\* right's live holder; a grant that fails and every other call (revoke,
\* transfer, synchronization, tokenization) leave every history as it is.
C29_HistoryAppendOnly ==
    [][\A n \in DomainNames :
          IF IsGrant(last') /\ last'.result = "ok" /\ last'.args[1] = n
          THEN LET e == domainRights'[n][Len(domainRights'[n])] IN
               /\ domainRights'[n] = Append(domainRights[n], e)
               /\ e.rightName = last'.args[2] /\ e.holder = last'.args[3]
               /\ e.grantedAt = now
               /\ e.expiresAt = (IF last'.args[4] = 0 THEN 0 ELSE now + last'.args[4])
               /\ \A x \in RightNames :
                     domains'[n].rights[x] =
                        IF x = last'.args[2] THEN last'.args[3] ELSE domains[n].rights[x]
          ELSE domainRights'[n] = domainRights[n]]_vars

\* C29 witness: a timed grant made at time 1 is the second entry of the
\* history, behind a permanent grant, and the right has since been revoked
\* and the domain's state synchronized.
C29_HistoryKeptAfterRevoke ==
    /\ last.to = "DomainManagement" /\ last.op = "syncDomainState" /\ last.result = "ok"
    /\ Len(domainRights["a.doma"]) = 2
    /\ domainRights["a.doma"][1].expiresAt = 0
    /\ domainRights["a.doma"][2].grantedAt = 1
    /\ domainRights["a.doma"][2].expiresAt = 2
    /\ domains["a.doma"].rights["DNS_MANAGEMENT"] = ZERO

IsSync(c) == c.to = "DomainManagement" /\ c.op = "syncDomainState"

\* C30: syncDomainState succeeds exactly when the caller is the registry's
\* operator and the domain is tokenized; the domain's owner who is not the
\* operator is refused.  A successful call sets the domain's active flag to
\* the given value and changes nothing else: the domain's owner, tokenized
\* flag, timestamp and rights, every other domain, the histories, the lists
\* of names and the ledger stay as they are; a failed call changes nothing.
C30_SyncByOperatorOnly ==
    [][IsSync(last')
          => LET n == last'.args[1] IN
             /\ last'.result = "ok" <=> (last'.sender = owner /\ domains[n].isTokenized)
             /\ domains' =
                   IF last'.result = "ok"
                   THEN [domains EXCEPT ![n].isActive = last'.args[2]]
                   ELSE domains
             /\ UNCHANGED <<ledgerVars, domainRights, userDomains, allDomains,
                            userRequests, monVars, msgVars>>]_vars

\* C30 witness: the operator has just set the active flag of a domain it does
\* not own to false; the domain is still tokenized, owned by its owner and
\* holds its right.
C30_DeactivatedByOperator ==
    /\ IsSync(last) /\ last.result = "ok" /\ last.sender = deployer
    /\ last.args = <<"a.doma", FALSE>>
    /\ ~domains["a.doma"].isActive
    /\ domains["a.doma"].isTokenized
    /\ domains["a.doma"].owner = "alice"
    /\ domains["a.doma"].rights["DNS_MANAGEMENT"] = "bob"
    /\ userDomains["alice"] = <<"a.doma">>

----------------------------------------------------------------------------
(* Who can lower a credit balance: the users' paid calls and the accounts  *)
(* the ledger's owner authorizes                                           *)

\* The largest number of debits in a run.
MaxDebitUses == 2

DebitUsageRoom == TotalUsage < MaxDebitUses

\* The addresses whose authorization the owner switches (itself and a feature
\* contract) and the accounts that call useFeature themselves.
Switched == {deployer, "ContractAnalysis"}
Debiters == {deployer, "bob"}

NextDebit ==
    \/ \E s \in Users : ensurePaymentCredit(s) /\ payForFeature(s, FEATURE_COST) /\ UNCHANGED flows
    \/ \E c \in Switched, b \in BOOLEAN : authorizeContract(owner, c, b) /\ UNCHANGED flows
    \/ \E s \in Debiters, u \in Users :
          (useFeatureResult(s, u) = "ok" => DebitUsageRoom) /\ useFeature(s, u) /\ UNCHANGED flows
    \/ \E s \in Users, t \in TargetNames :
          (requestAnalysisResult("ContractAnalysis", s, t) = "ok" => DebitUsageRoom)
          /\ requestAnalysis("ContractAnalysis", s, t) /\ UNCHANGED flows
    \/ \E u \in Users, res \in Results :
          completeAnalysis("ContractAnalysis", owner, u, 0, res[1], res[2]) /\ UNCHANGED flows
    \/ \E n \in {0} : withdrawETH(owner, n) /\ UNCHANGED flows

SpecDebit == Init /\ [][NextDebit]_vars

\* The call c is a call of DToken.useFeature made by an account itself.
IsDirectDebit(c) == c.to = "DToken" /\ c.op = "useFeature"

\* C31, as stated: the credit of a user goes down only in a successful paid
\* feature call made by that user.
C31_OnlyOwnCallsDebit ==
    [][\A u \in Accounts :
          userPayments'[u] < userPayments[u]
          => (IsPaidCall(last') /\ last'.result = "ok" /\ last'.sender = u)]_vars

\* C31, amended: the credit of a user goes down only by one price, and only
\* in a successful paid feature call made by that user or in a successful
\* useFeature call that names the user and is made by an address that is
\* authorized when it calls.  A paid feature call changes no credit but the
\* caller's; the owner's other functions (authorization, completion,
\* withdrawal) change no credit.
C31_OnlyAuthorizedDebit ==
    /\ [][\A u \in Accounts :
            userPayments'[u] < userPayments[u]
            => /\ userPayments'[u] = userPayments[u] - FEATURE_COST
               /\ last'.result = "ok"
               /\ \/ IsPaidCall(last') /\ last'.sender = u
                  \/ /\ IsDirectDebit(last') /\ last'.args[1] = u
                     /\ authorizedContracts[last'.sender]]_vars
    /\ [][IsPaidCall(last')
            => \A u \in Accounts \ {last'.sender} : userPayments'[u] = userPayments[u]]_vars
    /\ [][(last'.sender = owner /\ ~IsDirectDebit(last') /\ ~IsPaidCall(last'))
            => userPayments' = userPayments]_vars

\* C31 witness: the ledger's owner, having authorized itself, has just taken
\* the price from a user who made no feature call.
C31_OwnerDebitedUser ==
    /\ IsDirectDebit(last) /\ last.result = "ok"
    /\ last.sender = owner /\ last.args[1] = "alice"
    /\ userPayments["alice"] = 0 /\ userFeatureUsage["alice"] = 1
    /\ userRequests["ContractAnalysis"]["alice"] = <<>>
    /\ contractBalance = FEATURE_COST

----------------------------------------------------------------------------
(* The accounting of the ledger, checked under SpecLedger *)

\* What an account has sent to the ledger and not had back as usage: its
\* credit plus one price for every debit counted for it.
Accounted(u) == userPayments[u] + FEATURE_COST * userFeatureUsage[u]

\* The currency the account u sends to the ledger in the call c: the value of
\* u's successful deposit or plain transfer, nothing in any other call.
SentBy(u, c) ==
    IF c.sender = u /\ (IsDeposit(c) \/ IsPlainTransfer(c)) THEN c.args[1] ELSE 0

\* C32: for every user, credit + price * usage equals the currency the user
\* has sent to the ledger by deposits and plain transfers.  Both are 0 at the
\* start, and in every step the left side grows by exactly what the user
\* sends in that step; the usage counter never goes down and goes up, by one,
\* exactly in the successful debits of the user.
C32_AccountingIdentity ==
    /\ [][\A u \in Accounts :
            Accounted(u)' = Accounted(u) + SentBy(u, last')]_vars
    /\ [][\A u \in Accounts :
            /\ userFeatureUsage'[u] >= userFeatureUsage[u]
            /\ userFeatureUsage'[u] =
                  IF /\ last'.op = "useFeature" /\ last'.result = "ok"
                     /\ last'.args[1] = u
                  THEN userFeatureUsage[u] + 1
                  ELSE userFeatureUsage[u]]_vars

\* C32 witness: a user who deposited one price and was debited once has just
\* sent half a price by a plain transfer and holds half a price; nothing was
\* withdrawn.
C32_DepositDebitTransfer ==
    /\ IsPlainTransfer(last) /\ last.sender = "alice"
    /\ last.args[1] = FEATURE_COST \div 2
    /\ userPayments["alice"] = FEATURE_COST \div 2
    /\ userFeatureUsage["alice"] = 1
    /\ contractBalance = FEATURE_COST + FEATURE_COST \div 2

----------------------------------------------------------------------------
(* The registry's indices and owners, checked under SpecTransfer, and the  *)
(* frame of a transfer, checked under SpecRegistry                         *)

\* The accounts that have a list of names: every account and address(0).
ListHolders == Accounts \cup {ZERO}

\* C34: every tokenized name is exactly once in allDomains, exactly once in
\* the list of its current owner and in no other list; a name that is not
\* tokenized is in no list; and allDomains keeps its entries in every step.
C34_IndicesConsistent ==
    /\ [](\A n \in DomainNames :
            IF domains[n].isTokenized
            THEN /\ Occurrences(allDomains, n) = 1
                 /\ \A a \in ListHolders :
                       Occurrences(userDomains[a], n) =
                          (IF a = domains[n].owner THEN 1 ELSE 0)
            ELSE /\ Occurrences(allDomains, n) = 0
                 /\ \A a \in ListHolders : Occurrences(userDomains[a], n) = 0)
    /\ [][IsPrefix(allDomains, allDomains')]_vars

\* C34 witness: a domain that was transferred to another account has just
\* been transferred by that account to itself, while its first owner holds
\* another name.
C34_SelfTransferAfterTransfer ==
    /\ IsTransfer(last) /\ last.result = "ok"
    /\ last.sender = "bob" /\ last.args = <<"a.doma", "bob">>
    /\ userDomains["bob"] = <<"a.doma">>
    /\ userDomains["alice"] = <<"b.doma">>
    /\ allDomains = <<"a.doma", "b.doma">>

\* C35: the owner of a tokenized domain is never address(0).
C35_OwnerNeverZero ==
    \A n \in DomainNames : domains[n].isTokenized => domains[n].owner # ZERO

\* What holds of a domain's owner: it is address(0) only after a successful
\* transferDomain to address(0), and from then on every call of the domain
\* owner's functions on it fails and the owner stays address(0).
OwnerZeroIsFinal ==
    /\ [][\A n \in DomainNames :
            (domains'[n].owner = ZERO /\ domains'[n].isTokenized
             /\ ~(domains[n].owner = ZERO /\ domains[n].isTokenized))
            => /\ IsTransfer(last') /\ last'.result = "ok"
               /\ last'.args = <<n, ZERO>>]_vars
    /\ [][\A n \in DomainNames :
            (domains[n].isTokenized /\ domains[n].owner = ZERO)
            => /\ domains'[n] = domains[n]
               /\ (IsOwnerCall(last') /\ last'.args[1] = n) => last'.result # "ok"]_vars

\* C36: a successful transferDomain takes one price from the caller, makes
\* the new owner the domain's owner and changes the lists of names of the old
\* and the new owner; the domain's live rights, active flag and tokenization
\* timestamp, every other domain, the grant histories, allDomains and every
\* other account's credit and list are unchanged, and hasRight answers for
\* every right and address as it did before the transfer.
C36_TransferFrame ==
    [][(IsTransfer(last') /\ last'.result = "ok")
          => LET A == last'.sender
                 n == last'.args[1]
                 B == last'.args[2]
             IN
             /\ domains' = [domains EXCEPT ![n].owner = B]
             /\ UNCHANGED <<domainRights, allDomains, now>>
             /\ userPayments' = [userPayments EXCEPT ![A] = @ - FEATURE_COST]
             /\ userFeatureUsage' = [userFeatureUsage EXCEPT ![A] = @ + 1]
             /\ \A a \in ListHolders \ {A, B} : userDomains'[a] = userDomains[a]
             /\ \A m \in DomainNames, x \in RightNames, a \in Askers :
                   m = n => (hasRight(m, x, a)' = hasRight(m, x, a))]_vars

\* C36 witness: a domain has just been transferred while an account holds a
\* right on it that the previous owner granted; the account still has the
\* right.
C36_RightOutlivesTransfer ==
    /\ IsTransfer(last) /\ last.result = "ok"
    /\ last.sender = "alice" /\ last.args = <<"a.doma", "bob">>
    /\ domains["a.doma"].owner = "bob"
    /\ domains["a.doma"].rights["DNS_MANAGEMENT"] = "bob"
    /\ Len(domainRights["a.doma"]) = 1
    /\ hasRight("a.doma", "DNS_MANAGEMENT", "bob")

(* The frontend's request flows: ContractService, run in two tabs at once *)

\* The debits the frontend's specification lets happen.
MaxFlowUses == 3

FlowUsageRoom == TotalUsage < MaxFlowUses

\* ensurePaymentCredit up to `const has = await dtoken.hasFeaturePayment(user)`:
\* the flow reads the ledger and goes on to deposit, or straight to its call.
ensurePaymentCreditHas(t) ==
    /\ flows[t] = "idle"
    /\ flows' = [flows EXCEPT ![t] = IF hasFeaturePayment(signer) THEN "call" ELSE "pay"]
    /\ last' = Call("DToken", "hasFeaturePayment", signer, <<signer>>, "ok")
    /\ UNCHANGED <<ledgerVars, featureVars, now, guardVars>>

\* ensurePaymentCredit's branch `if (!has)`: the flow deposits FEATURE_COST and
\* waits for the transaction.
ensurePaymentCreditPay(t) ==
    /\ flows[t] = "pay"
    /\ payForFeature(signer, FEATURE_COST)
    /\ flows' = [flows EXCEPT ![t] = "call"]

\* requestContractAnalysis, requestTokenomicsAnalysis and requestSocialAnalysis
\* after `await this.ensurePaymentCredit()`: the call of the feature contract.
requestAnalysisCall(t, l, target) ==
    /\ flows[t] = "call"
    /\ requestAnalysis(l, signer, target)
    /\ flows' = [flows EXCEPT ![t] = "idle"]

\* requestMonitoring after `await this.ensurePaymentCredit()`.
requestMonitoringCall(t, targetAddress, alertThreshold) ==
    /\ flows[t] = "call"
    /\ requestMonitoring(signer, targetAddress, alertThreshold)
    /\ flows' = [flows EXCEPT ![t] = "idle"]

NextFrontend ==
    \/ \E t \in Tabs : ensurePaymentCreditHas(t)
    \/ \E t \in Tabs : ensurePaymentCreditPay(t)
    \/ \E t \in Tabs, l \in Logs, target \in TargetNames :
          (requestAnalysisResult(l, signer, target) = "ok" => FlowUsageRoom)
          /\ requestAnalysisCall(t, l, target)
    \/ \E t \in Tabs, target \in TargetNames :
          (requestMonitoringResult(signer, target) = "ok" => FlowUsageRoom)
          /\ requestMonitoringCall(t, target, 500)

\* One user's two tabs, each running request after request; nobody else acts.
SpecFrontend == Init /\ [][NextFrontend]_vars

\* The step is the feature call of tab t's flow.
IsFlowCall(t) == flows[t] = "call" /\ flows'[t] = "idle"

\* C33: the feature call a flow makes after ensurePaymentCredit is not rejected
\* for lack of payment, also when two flows of the same user interleave.
C33_FlowCallIsPaid ==
    [][\A t \in Tabs : IsFlowCall(t) => last'.result # "InsufficientPayment"]_vars

\* A flow deposits only when its own reading found less than one price, and
\* then exactly one price; a flow that read a full price deposits nothing.
FlowDepositsOnePrice ==
    [][\A t \in Tabs :
          /\ flows[t] = "pay" /\ flows'[t] = "call"
                => userPayments'[signer] = userPayments[signer] + FEATURE_COST
          /\ flows[t] = "idle" /\ flows'[t] = "call"
                => hasFeaturePayment(signer) /\ UNCHANGED ledgerVars]_vars

====
